---- MODULE Spec2Model ----
(***************************************************************************)
(* A model of mcm's metadata resolution engine: the version model          *)
(* (common.py), version matching and selection (modinfo.py), the metadata  *)
(* cache and info manager (infomanager.py) and the dependency resolver     *)
(* (resolve.py).                                                           *)
(*                                                                         *)
(* Python's None is the empty tuple <<>>, an optional value x is <<x>>.    *)
(* Time is counted in units of two hours (7200 s).                         *)
(***************************************************************************)
EXTENDS Integers, Sequences, FiniteSets, TLC

None == <<>>
Some(x) == <<x>>

\* A sequence given as a function on 1..n, as a tuple
AsSeq(f) == SubSeq(f, 1, Len(f))

\* A function, evaluated
AsFcn(f) == f @@ <<>>

Reverse(s) == AsSeq([i \in 1..Len(s) |-> s[Len(s) + 1 - i]])
Range(s) == {s[i] : i \in 1..Len(s)}

\* Sequences over S without repetition, of length lo..hi.
DistinctSeqs(S, lo, hi) ==
  {s \in UNION {[1..n -> S] : n \in lo..hi} : \A i, j \in 1..Len(s) : i # j => s[i] # s[j]}

(***************************************************************************)
(* Strings whose order the code uses, in Python's str order.               *)
(***************************************************************************)
SortedStrs == <<"", "22w24a", "22w30a", "22w42a", "22w50a", "a", "b", "pre1", "rc1", "release", "x", "zzzzzz">>
StrIndex(s) == CHOOSE i \in 1..Len(SortedStrs) : SortedStrs[i] = s
StrLt(s, t) == StrIndex(s) < StrIndex(t)

(***************************************************************************)
(* common.py: VerType, Ver                                                 *)
(***************************************************************************)
RELEASE == 3
BETA == 2
ALPHA == 1

\* A token of Ver.version: a Python int, or a str (v indexes SortedStrs).
I(n) == [int |-> TRUE, v |-> n]
S(s) == [int |-> FALSE, v |-> StrIndex(s)]
IsAB(t) == ~t.int /\ SortedStrs[t.v] \in {"a", "b"}

MkVer(toks, type) == [version |-> toks, type |-> type]

\* str(lhs) < str(rhs) for two tokens: a digit string sorts below every
\* [a-z_]+ string.
TokStrLt(l, r) ==
  IF l.int /\ r.int THEN FALSE  \* not reached: handled by the int(), int() case
  ELSE IF l.int THEN TRUE
  ELSE IF r.int THEN FALSE
  ELSE l.v < r.v

\* Ver.__lt__, as the truth value of what it returns. i is the position of
\* zip_longest. Falling out of the loop returns a non-empty string (truthy).
RECURSIVE VerLtFrom(_, _, _)
VerLtFrom(a, b, i) ==
  IF i > Len(a.version) /\ i > Len(b.version) THEN TRUE
  ELSE IF i > Len(a.version) THEN FALSE
  ELSE IF i > Len(b.version) THEN TRUE
  ELSE LET l == a.version[i]
           r == b.version[i]
       IN IF l.int /\ r.int
          THEN IF l.v < r.v THEN TRUE
               ELSE IF l.v > r.v THEN FALSE
               ELSE VerLtFrom(a, b, i + 1)
          ELSE IF IsAB(l) /\ r.int THEN TRUE
          ELSE IF l.int /\ IsAB(r) THEN FALSE
          ELSE TokStrLt(l, r)

Ver_lt(a, b) == VerLtFrom(a, b, 1)
\* functools.total_ordering derives the other comparisons from __lt__ and
\* the dataclass __eq__.
Ver_gt(a, b) == ~Ver_lt(a, b) /\ a # b
Ver_le(a, b) == Ver_lt(a, b) \/ a = b
Ver_ge(a, b) == ~Ver_lt(a, b)

(***************************************************************************)
(* common.py: McVer, McVerMatch                                            *)
(***************************************************************************)
McV(major, minor, patch) ==
  [major |-> major, minor |-> minor, patch |-> patch, suffix |-> "", snapshot |-> ""]

\* McVer.cmp and McVer.__lt__: tuple comparison of
\* (major, minor, patch, suffix or 'release', snapshot or 'zzzzzz').
McVer_cmp(v) ==
  <<v.major, v.minor, v.patch,
    StrIndex(IF v.suffix = "" THEN "release" ELSE v.suffix),
    StrIndex(IF v.snapshot = "" THEN "zzzzzz" ELSE v.snapshot)>>

RECURSIVE TupleLtFrom(_, _, _)
TupleLtFrom(a, b, i) ==
  IF i > Len(a) \/ i > Len(b) THEN Len(a) < Len(b)
  ELSE IF a[i] < b[i] THEN TRUE
  ELSE IF a[i] > b[i] THEN FALSE
  ELSE TupleLtFrom(a, b, i + 1)

McVer_lt(a, b) == TupleLtFrom(McVer_cmp(a), McVer_cmp(b), 1)
McVer_ge(a, b) == ~McVer_lt(a, b)

\* McVerMatch(ver, operator); ver is optional.
McVerMatch(ver, operator) == [ver |-> ver, operator |-> operator]
McVerMatch_ANY == McVerMatch(None, "")

McVerMatch_call_exact(m, other) == m.ver = None \/ m.ver[1] = other

\* McVerMatch.__call__
McVerMatch_call(m, other) ==
  IF m.ver = None THEN TRUE
  ELSE IF m.operator = "" THEN m.ver[1] = other
  ELSE McVer_ge(m.ver[1], other)
       /\ other.minor = m.ver[1].minor /\ other.major = m.ver[1].major

\* McVerMatch.__bool__
McVerMatch_bool(m) == m.ver # None

(***************************************************************************)
(* common.py: VerCmp, VerMatch                                             *)
(***************************************************************************)
VerCmp(ver, operator) == [ver |-> ver, operator |-> operator]

\* VerCmp.__call__: the bound is the left operand of the comparison.
VerCmp_call(c, other) ==
  IF c.ver = None THEN TRUE
  ELSE LET ver == c.ver[1] IN
       CASE c.operator = ""   -> ver = other
         [] c.operator = "<"  -> Ver_lt(ver, other)
         [] c.operator = "<=" -> Ver_le(ver, other)
         [] c.operator = ">"  -> Ver_gt(ver, other)
         [] c.operator = ">=" -> Ver_ge(ver, other)

VerMatch(criteria, min_ver_type) == [criteria |-> criteria, min_ver_type |-> min_ver_type]
VerMatch_ANY == VerMatch(<<>>, ALPHA)

\* VerMatch.__call__
VerMatch_call(m, other) ==
  IF m.min_ver_type > other.type THEN FALSE
  ELSE \A i \in 1..Len(m.criteria) : VerCmp_call(m.criteria[i], other)

(***************************************************************************)
(* modinfo.py: ModVer, ModVerMatch                                         *)
(*                                                                         *)
(* A ModVer carries its derived `version` (the Ver that strip_mcver parses *)
(* out of version_string, with version_type as its maturity).              *)
(***************************************************************************)
ModVer(id, version, published, mcversions, loaders) ==
  [id |-> id, version |-> version, published |-> published,
   mcversions |-> mcversions, loaders |-> loaders]

\* ModVer.__lt__
ModVer_lt(a, b) ==
  IF a.version = b.version THEN a.published < b.published
  ELSE Ver_lt(a.version, b.version)

RESULT_FAIL == 0
RESULT_FALLBACK == 1
RESULT_SUCCESS == 2

\* A str as the sequence of its characters; str.lower()
LowerChar(c) ==
  CASE c = "F" -> "f" [] c = "O" -> "o" [] c = "R" -> "r" [] c = "G" -> "g" [] c = "E" -> "e"
    [] OTHER -> c
lower(s) == AsSeq([i \in 1..Len(s) |-> LowerChar(s[i])])

\* needle in hay
Contains(hay, needle) ==
  \E i \in 1..(Len(hay) - Len(needle) + 1) : SubSeq(hay, i, i + Len(needle) - 1) = needle

\* the substring filter rejects v; only asked about a ModVer given with its
\* raw version_string
SubstringMissing(m, v) ==
  /\ m.ver_str_match # None
  /\ m.ver_str_match[1] # <<>>
  /\ ~Contains(lower(v.version_string), lower(m.ver_str_match[1]))

\* ModVerMatch(ver, loader, mcver, mcver_fallback, ver_str_match)
ModVerMatch_filtered(ver, loader, mcver, mcver_fallback, ver_str_match) ==
  [ver |-> ver, loader |-> loader, mcver |-> mcver, mcver_fallback |-> mcver_fallback,
   ver_str_match |-> ver_str_match]

\* ModVerMatch without a substring filter (ver_str_match = None)
ModVerMatch(ver, loader, mcver, mcver_fallback) ==
  ModVerMatch_filtered(ver, loader, mcver, mcver_fallback, None)

\* ModVerMatch.test(v, fallback=...)
ModVerMatch_test(m, v, fallback) ==
  IF ~VerMatch_call(m.ver, v.version) THEN RESULT_FAIL
  ELSE IF m.loader # None /\ v.loaders # {} /\ m.loader[1] \notin v.loaders THEN RESULT_FAIL
  ELSE IF SubstringMissing(m, v) THEN RESULT_FAIL
  ELSE IF \E g \in v.mcversions : McVerMatch_call(m.mcver, g) THEN RESULT_SUCCESS
  ELSE IF fallback /\ m.mcver_fallback # None /\ McVerMatch_bool(m.mcver_fallback[1])
          /\ \E g \in v.mcversions : McVerMatch_call(m.mcver_fallback[1], g)
       THEN RESULT_FALLBACK
  ELSE RESULT_FAIL

ModVerMatch_test_no_fallback(m, v) == ModVerMatch_test(m, v, FALSE)

(***************************************************************************)
(* list.sort / sorted of CPython for a short list (fewer than 64 items):   *)
(* count_run, then binary insertion, both asking only ISLT. lt[i, j] is    *)
(* the truth value of item i < item j; p is the list as item numbers.      *)
(***************************************************************************)
RECURSIVE CountRun(_, _, _, _)
CountRun(p, lt, desc, n) ==
  IF n < Len(p) /\ (lt[p[n + 1], p[n]] = desc) THEN CountRun(p, lt, desc, n + 1) ELSE n

RECURSIVE BinPos(_, _, _, _, _)
BinPos(p, lt, pivot, l, r) ==
  IF lt[pivot, p[l + ((r - l) \div 2)]]
  THEN IF l < l + ((r - l) \div 2) THEN BinPos(p, lt, pivot, l, l + ((r - l) \div 2)) ELSE l
  ELSE IF l + ((r - l) \div 2) + 1 < r THEN BinPos(p, lt, pivot, l + ((r - l) \div 2) + 1, r)
       ELSE l + ((r - l) \div 2) + 1

\* the list with item `start` moved to position pos
Inserted(p, start, pos) ==
  AsSeq([k \in 1..Len(p) |->
           IF k < pos THEN p[k]
           ELSE IF k = pos THEN p[start]
           ELSE IF k <= start THEN p[k - 1]
           ELSE p[k]])

RECURSIVE BinarySort(_, _, _)
BinarySort(p, lt, start) ==
  IF start > Len(p) THEN p
  ELSE BinarySort(Inserted(p, start, BinPos(p, lt, p[start], 1, start)), lt, start + 1)

\* the list with its first k items reversed
RunReversed(p, k) == AsSeq([i \in 1..Len(p) |-> IF i <= k THEN p[k + 1 - i] ELSE p[i]])

\* the binary sort after the first run, of k items, descending or not
SortAfterRun(p, lt, desc, k) ==
  BinarySort(IF desc THEN RunReversed(p, k) ELSE p, lt, k + 1)

SortFrom(p, lt) ==
  IF Len(p) < 2 THEN p
  ELSE SortAfterRun(p, lt, lt[p[2], p[1]], CountRun(p, lt, lt[p[2], p[1]], 2))

ListSort(n, lt) == SortFrom(AsSeq([i \in 1..n |-> i]), lt)

\* the items of r in the order p, then reversed
Permuted(r, p) == Reverse(AsSeq([k \in 1..Len(r) |-> r[p[k]]]))

ModVerLt(r) == [i \in 1..Len(r), j \in 1..Len(r) |-> ModVer_lt(r[i], r[j])]
PublishedLt(r) == [i \in 1..Len(r), j \in 1..Len(r) |-> r[i].published < r[j].published]

SortedReverseOf(r) == Permuted(r, ListSort(Len(r), ModVerLt(r)))
SortedByPublishedReverseOf(r) == Permuted(r, ListSort(Len(r), PublishedLt(r)))

\* sorted(s, reverse=True) with ModVer.__lt__: reverse, stable sort, reverse.
SortedReverse(s) == SortedReverseOf(Reverse(s))

\* sorted(s, key=lambda x: x.published, reverse=True)
SortedByPublishedReverse(s) == SortedByPublishedReverseOf(Reverse(s))

(***************************************************************************)
(* modinfo.py: ModInfo                                                     *)
(***************************************************************************)
\* ModInfo.__post_init__: self.versions.sort(reverse=True)
ModInfo(checked, mod_desc, versions, version_info) ==
  [checked |-> checked, mod_desc |-> mod_desc,
   versions |-> SortedReverse(versions), version_info |-> version_info]

\* filter(mvm.test_no_fallback, versions), else filter(mvm.test, versions)
Accepted(versions, mvm) ==
  SelectSeq(versions, LAMBDA v : ModVerMatch_test_no_fallback(mvm, v) # RESULT_FAIL)
AcceptedWithFallback(versions, mvm) ==
  SelectSeq(versions, LAMBDA v : ModVerMatch_test(mvm, v, TRUE) # RESULT_FAIL)
OrElse(first, second) == IF first = <<>> THEN second ELSE first

\* ModInfo.get_versions
get_versions(info, mvm) ==
  SortedReverse(OrElse(Accepted(info.versions, mvm), AcceptedWithFallback(info.versions, mvm)))

FirstOf(vs) == IF vs = <<>> THEN None ELSE Some(vs[1])

\* ModInfo.get_latest_version: optional
get_latest_version(info, mvm) == FirstOf(get_versions(info, mvm))

(***************************************************************************)
(* The registries (the backends' remote side). Every project is published  *)
(* on both sources; Modrinth gives it an opaque id besides its slug, on     *)
(* CurseForge the id is the name. gen[n] counts the publications of project *)
(* n: publication k adds version k; the backend lists the two newest.       *)
(***************************************************************************)
Sources == {"modrinth", "curseforge"}
Mods == {"a", "b", "c"}
ModOrder == <<"a", "b", "c">>
IdOf == [n \in Mods |-> CASE n = "a" -> "A" [] n = "b" -> "B" [] n = "c" -> "C"]
Ids == {IdOf[n] : n \in Mods}
Idents == Mods \cup Ids

PackMc == McV(1, 19, 3)
OldMc == McV(1, 19, 2)

VARIABLES
  now,        \* the clock
  gen,        \* registry: publications of each project so far
  requires,   \* registry: the required dependencies of each project's newest version
  targets,    \* registry: the game version each project's versions are published for
  mem,        \* ModInfoCache.cache: (by, source, key) -> absent / None / Exception / ModInfo
  disk,       \* the cache directory: by_id documents and by_name links
  csrc,       \* the source the manager's client works with
  last,       \* what the last manager call did
  sel,        \* version selection: input list, predicate, built ModInfo, chosen version
  rs,         \* resolve(): its locals and its progress
  fc,         \* ModInfoCache.file_cache, the files directory and the downloads made
  rq,         \* Modrinth.active_requests, the tasks and the callers of get_json
  pf          \* the operands of a comparison or a match and its results

vars == <<now, gen, requires, targets, mem, disk, csrc, last, sel, rs, fc, rq, pf>>

\* The Ver of the k-th published version: 1.0, 1.1-BETA, 1.1, 1.2-BETA, ...
VerOfPub(k) == MkVer(<<I(1), I(k \div 2)>>, IF k % 2 = 1 THEN RELEASE ELSE BETA)

\* The k-th published version of a project, as parse_version / the files
\* table give it.
PubVer(n, k) == ModVer(k, VerOfPub(k), k, {targets[n]}, {})

Dep(is_required, id, ver_id) == [is_required |-> is_required, id |-> id, ver_id |-> ver_id]

SeqOfSet(T) == SelectSeq(ModOrder, LAMBDA n : n \in T)

\* Dependencies of version k of project n when the registry holds g
\* publications: the newest version requires requires[n] and names every
\* other project as optional; an older version requires the others.
DepsOf(n, k, g) ==
  LET req == IF k = g THEN requires[n] ELSE (Mods \ requires[n]) \ {n}
  IN AsSeq([i \in 1..Len(ModOrder) |-> Dep(ModOrder[i] \in req, ModOrder[i], None)])

ModFile(filename, hash) == [filename |-> filename, size |-> None, hash |-> hash, url |-> None]
ModVerInfo(file, dependencies, changelog) ==
  [file |-> file, dependencies |-> dependencies, changelog |-> changelog]

\* The file name the registries give for version k of project n: project
\* "b" publishes its files under the names project "a" uses, the other
\* projects under names of their own.
FileNameOf(n, k) == IF n = "b" THEN <<"a", k>> ELSE <<n, k>>

\* The detail of version k of project n as described at g publications.
DetailOf(s, n, k, g) ==
  ModVerInfo(ModFile(FileNameOf(n, k), <<s, n, k>>), DepsOf(n, k, g), Some(g))

ModDesc(id, name, updated) == [id |-> id, type |-> "mod", name |-> name, updated |-> updated]

\* The project an identifier names on a source, if any.
ProjectOf(s, x) ==
  IF x \in Mods THEN Some(x)
  ELSE IF s = "modrinth" THEN Some(CHOOSE n \in Mods : IdOf[n] = x)
  ELSE None

\* Modrinth.get_moddesc (parse_project) / CurseForge.get_moddesc
backend_get_moddesc(s, x) ==
  LET n == ProjectOf(s, x)[1]
  IN ModDesc(IF s = "modrinth" THEN IdOf[n] ELSE n, n, Some(gen[n]))

ListedVersions(n) ==
  IF gen[n] = 1 THEN <<PubVer(n, 1)>> ELSE <<PubVer(n, gen[n]), PubVer(n, gen[n] - 1)>>

\* Modrinth.get_versions: the list with the detail of every listed version.
\* CurseForge.get_versions: the list and None.
backend_get_versions(s, desc) ==
  LET n == desc.name
      vs == ListedVersions(n)
  IN [versions |-> vs,
      version_info |->
        IF s = "modrinth"
        THEN Some(AsFcn([k \in {vs[i].id : i \in 1..Len(vs)} |-> DetailOf(s, n, k, gen[n])]))
        ELSE None]

\* CurseForge.get_version_info (Modrinth.get_version_info raises ValueError)
backend_get_version_info(s, desc, ver) == DetailOf(s, desc.name, ver.id, gen[desc.name])

(***************************************************************************)
(* serialize.py, applied to ModInfo: the JSON document of a ModInfo and    *)
(* the ModInfo parsed from a document. A field whose value equals its       *)
(* default (None) is left out of the document; a missing key parses to the  *)
(* default.                                                                 *)
(***************************************************************************)
\* datetime.isoformat / dateutil isoparse
isoformat(t) == <<"iso", t>>
isoparse(x) == x[2]

\* McVer.SNAPSHOTS (its first entries)
SNAPSHOTS ==
  <<[major |-> 1, minor |-> 19, patch |-> 3, suffix |-> "pre1", snapshot |-> "22w42a"],
    [major |-> 1, minor |-> 19, patch |-> 1, suffix |-> "pre1", snapshot |-> "22w24a"]>>

\* McVer.serialize: the snapshot label, or major.minor[.patch][-suffix]
McVer_serialize(v) ==
  IF v.snapshot # "" THEN [label |-> v.snapshot]
  ELSE [parts |-> IF v.patch # 0 THEN <<v.major, v.minor, v.patch>> ELSE <<v.major, v.minor>>,
        suffix |-> v.suffix]

\* McVer.deserialize; <<"raise">> is its ValueError
McVer_deserialize(x) ==
  IF "parts" \in DOMAIN x
  THEN [major |-> x.parts[1], minor |-> x.parts[2],
        patch |-> IF Len(x.parts) = 2 THEN 0 ELSE x.parts[3],
        suffix |-> x.suffix, snapshot |-> ""]
  ELSE LET hits == {i \in 1..Len(SNAPSHOTS) : ~StrLt(x.label, SNAPSHOTS[i].snapshot)}
       IN IF hits = {} THEN <<"raise">>
          ELSE LET i == CHOOSE h \in hits : \A g \in hits : h <= g
               IN [SNAPSHOTS[i] EXCEPT !.snapshot = x.label]

serialize_Dep(d) ==
  IF d.ver_id = None THEN [is_required |-> d.is_required, id |-> d.id]
  ELSE [is_required |-> d.is_required, id |-> d.id, ver_id |-> d.ver_id[1]]

deserialize_Dep(x) ==
  Dep(x.is_required, x.id, IF "ver_id" \in DOMAIN x THEN Some(x.ver_id) ELSE None)

serialize_ModFile(f) ==
  LET base == [filename |-> f.filename, hash |-> f.hash]
      size == IF f.size = None THEN <<>> ELSE [size |-> f.size[1]]
      url == IF f.url = None THEN <<>> ELSE [url |-> f.url[1]]
  IN base @@ size @@ url

deserialize_ModFile(x) ==
  [filename |-> x.filename,
   size |-> IF "size" \in DOMAIN x THEN Some(x.size) ELSE None,
   hash |-> x.hash,
   url |-> IF "url" \in DOMAIN x THEN Some(x.url) ELSE None]

serialize_ModVerInfo(i) ==
  LET base == [file |-> serialize_ModFile(i.file),
               dependencies |-> AsSeq([k \in 1..Len(i.dependencies) |-> serialize_Dep(i.dependencies[k])])]
  IN IF i.changelog = None THEN base ELSE base @@ [changelog |-> i.changelog[1]]

deserialize_ModVerInfo(x) ==
  ModVerInfo(deserialize_ModFile(x.file),
             AsSeq([k \in 1..Len(x.dependencies) |-> deserialize_Dep(x.dependencies[k])]),
             IF "changelog" \in DOMAIN x THEN Some(x.changelog) ELSE None)

\* version_string stands for the raw string, version_type is written as
\* the enum value.
serialize_ModVer(v) ==
  [id |-> v.id, version_string |-> v.version.version, version_type |-> v.version.type,
   loaders |-> v.loaders, published |-> isoformat(v.published),
   mcversions |-> {McVer_serialize(g) : g \in v.mcversions}]

deserialize_ModVer(x) ==
  ModVer(x.id, MkVer(x.version_string, x.version_type), isoparse(x.published),
         {McVer_deserialize(g) : g \in x.mcversions}, x.loaders)

serialize_ModDesc(d) ==
  LET base == [id |-> d.id, type |-> d.type, name |-> d.name]
  IN IF d.updated = None THEN base ELSE base @@ [updated |-> isoformat(d.updated[1])]

deserialize_ModDesc(x) ==
  [id |-> x.id, type |-> x.type, name |-> x.name,
   updated |-> IF "updated" \in DOMAIN x THEN Some(isoparse(x.updated)) ELSE None]

serialize_ModInfo(info) ==
  [checked |-> isoformat(info.checked),
   mod_desc |-> serialize_ModDesc(info.mod_desc),
   versions |-> AsSeq([k \in 1..Len(info.versions) |-> serialize_ModVer(info.versions[k])]),
   version_info |-> AsFcn([k \in DOMAIN info.version_info |-> serialize_ModVerInfo(info.version_info[k])])]

\* deserialize(ModInfo, doc): builds the ModInfo, so __post_init__ sorts.
deserialize_ModInfo(x) ==
  ModInfo(isoparse(x.checked), deserialize_ModDesc(x.mod_desc),
          AsSeq([k \in 1..Len(x.versions) |-> deserialize_ModVer(x.versions[k])]),
          AsFcn([k \in DOMAIN x.version_info |-> deserialize_ModVerInfo(x.version_info[k])]))

(***************************************************************************)
(* infomanager.py: ModInfoCache                                            *)
(***************************************************************************)
Keys == {"by_id", "by_name"} \X Sources \X Idents

\* An entry of ModInfoCache.cache
Missing == <<"absent">>
NoneE == <<"none">>
ExcE == <<"exc">>
InfoE(info) == <<"info", info>>
IsInfo(e) == e[1] = "info"

\* A file of the by_id directory
NoFile == <<"absent">>
Malformed == <<"malformed">>
DocFile(doc) == <<"doc", doc>>

EmptyMem == [k \in Keys |-> Missing]
EmptyDisk == [by_id |-> [k \in Sources \X Idents |-> NoFile],
              by_name |-> [k \in Sources \X Idents |-> None]]

\* access(_path_by(by, src, name), R_OK): a by_name path is a link to the
\* by_id file.
Readable(dsk, by, s, x) ==
  IF by = "by_id" THEN dsk.by_id[s, x] # NoFile
  ELSE dsk.by_name[s, x] # None /\ dsk.by_id[s, dsk.by_name[s, x][1]] # NoFile

FileAt(dsk, by, s, x) ==
  IF by = "by_id" THEN dsk.by_id[s, x] ELSE dsk.by_id[s, dsk.by_name[s, x][1]]

\* _get_by, the document read: both keys of the parsed ModInfo are set
Loaded(m, s, r) ==
  [mem |-> [m EXCEPT ![<<"by_id", s, r.mod_desc.id>>] = InfoE(r),
                     ![<<"by_name", s, r.mod_desc.name>>] = InfoE(r)],
   result |-> InfoE(r)]

\* _get_by: [mem, result]; a result ExcE is raised to the caller
get_by(m, dsk, by, s, x) ==
  IF m[<<by, s, x>>] # Missing THEN [mem |-> m, result |-> m[<<by, s, x>>]]
  ELSE IF ~Readable(dsk, by, s, x)
  THEN [mem |-> [m EXCEPT ![<<by, s, x>>] = NoneE], result |-> NoneE]
  ELSE IF FileAt(dsk, by, s, x) = Malformed
  THEN [mem |-> [m EXCEPT ![<<by, s, x>>] = ExcE], result |-> ExcE]
  ELSE Loaded(m, s, deserialize_ModInfo(FileAt(dsk, by, s, x)[2]))

get_by_name(m, dsk, s, x) == get_by(m, dsk, "by_name", s, x)

\* ModInfoCache.set, the document written and the name linked to it
Written(dsk, s, id, doc) == [dsk EXCEPT !.by_id[s, id] = DocFile(doc)]
Linked(dsk, s, name, id) ==
  IF Readable(dsk, "by_name", s, name) THEN dsk ELSE [dsk EXCEPT !.by_name[s, name] = Some(id)]

cache_set_by_id_only(m, dsk, s, value) ==
  [mem |-> [m EXCEPT ![<<"by_id", s, value.mod_desc.id>>] = InfoE(value)],
   disk |-> Linked(Written(dsk, s, value.mod_desc.id, serialize_ModInfo(value)),
                   s, value.mod_desc.name, value.mod_desc.id)]

\* ModInfoCache.set: [mem, disk]
cache_set(m, dsk, s, value) ==
  [mem |-> [m EXCEPT ![<<"by_id", s, value.mod_desc.id>>] = InfoE(value),
                     ![<<"by_name", s, value.mod_desc.name>>] = InfoE(value)],
   disk |-> Linked(Written(dsk, s, value.mod_desc.id, serialize_ModInfo(value)),
                   s, value.mod_desc.name, value.mod_desc.id)]

(***************************************************************************)
(* infomanager.py: ModInfoManager                                          *)
(***************************************************************************)
\* 6 * 3600 s and 10 * 3600 s, in units of 7200 s
RECHECK_INTERVAL_MIN == 3
RECHECK_INTERVAL_MAX == 5

RecheckIntervals_from_zero == 0..(RECHECK_INTERVAL_MAX - 1)

\* recheck_interval: randrange(MIN, MAX)
RecheckIntervals == RECHECK_INTERVAL_MIN..(RECHECK_INTERVAL_MAX - 1)

DictUpdate_replacing(d, e) == e

\* dict.update
DictUpdate(d, e) ==
  AsFcn([k \in DOMAIN d \cup DOMAIN e |-> IF k \in DOMAIN e THEN e[k] ELSE d[k]])
EmptyDict == [k \in {} |-> k]

\* The backend calls a manager call can make
CallDesc == "get_moddesc"
CallVersions == "get_versions"
CallDetail == "get_version_info"

\* The network failures of one call: none, or the failure of one request.
Failures == {"none", CallDesc, CallVersions, CallDetail}

Raised(m, dsk, calls) ==
  [mem |-> m, disk |-> dsk, outcome |-> "raised", result |-> None, calls |-> calls, stored |-> FALSE]

\* Does the descriptor request of source s for identifier x fail?
DescFails(s, x, fail) == fail = CallDesc \/ ProjectOf(s, x) = None

\* the ModInfo of a cache entry, if it is one
CachedOf(e) == IF IsInfo(e) THEN Some(e[2]) ELSE None

\* return self.cache.set(source, info)
get_modinfo_stored(c, value, calls) ==
  [mem |-> c.mem, disk |-> c.disk, outcome |-> "ok", result |-> Some(value), calls |-> calls,
   stored |-> TRUE]
get_modinfo_store(m, dsk, s, value, calls) ==
  get_modinfo_stored(cache_set(m, dsk, s, value), value, calls)

\* if newverinfo: version_info.update(newverinfo)
Updated(version_info, newverinfo) ==
  IF newverinfo # None /\ newverinfo[1] # EmptyDict
  THEN DictUpdate(version_info, newverinfo[1]) ELSE version_info

\* versions, newverinfo = await backend.get_versions(newdesc); info = ModInfo(...)
get_modinfo_refetched(t, newdesc, version_info, got) ==
  ModInfo(t, newdesc, got.versions, Updated(version_info, got.version_info))

\* get_modinfo from the descriptor fetch on (lines 126-131); info is the
\* stale cached ModInfo, if any.
get_modinfo_revalidate(m, dsk, s, t, fail, info, newdesc) ==
  IF info = None \/ info[1].mod_desc.updated # newdesc.updated
  THEN IF fail = CallVersions THEN Raised(m, dsk, {CallDesc, CallVersions})
       ELSE get_modinfo_store(m, dsk, s,
              get_modinfo_refetched(t, newdesc,
                                    IF info = None THEN EmptyDict ELSE info[1].version_info,
                                    backend_get_versions(s, newdesc)),
              {CallDesc, CallVersions})
  ELSE get_modinfo_store(m, dsk, s,
         ModInfo(t, newdesc, info[1].versions, info[1].version_info), {CallDesc})

\* get_modinfo after the cache lookup g (lines 116-125)
get_modinfo_cached(g, dsk, s, x, t, interval, fail) ==
  IF IsInfo(g.result) /\ t - g.result[2].checked < interval
  THEN [mem |-> g.mem, disk |-> dsk, outcome |-> "ok", result |-> Some(g.result[2]),
        calls |-> {}, stored |-> FALSE]
  ELSE IF DescFails(s, x, fail) THEN Raised(g.mem, dsk, {CallDesc})
  ELSE get_modinfo_revalidate(g.mem, dsk, s, t, fail, CachedOf(g.result),
                              backend_get_moddesc(s, x))

\* ModInfoManager.get_modinfo(source, type, id_or_name), with the interval
\* drawn for this call and the request that fails during it (if any):
\* [mem, disk, outcome, result, calls, stored].
get_modinfo(m, dsk, s, x, t, interval, fail) ==
  get_modinfo_cached(get_by_name(m, dsk, s, x), dsk, s, x, t, interval, fail)

get_version_info_unsaved(m, dsk, s, modinfo, ver, fail) ==
  IF s = "modrinth" \/ fail = CallDetail
  THEN Raised(m, dsk, {CallDetail}) @@ [modinfo |-> modinfo]
  ELSE [mem |-> m, disk |-> dsk, outcome |-> "ok",
        result |-> Some(backend_get_version_info(s, modinfo.mod_desc, ver)),
        calls |-> {CallDetail}, stored |-> FALSE, modinfo |-> modinfo]

\* modinfo.version_info[ver.id] = info
WithDetail(modinfo, id, d) ==
  [modinfo EXCEPT !.version_info = DictUpdate(@, [k \in {id} |-> d])]

\* self.cache.set(source, modinfo); return ModVerPair(ver, info)
get_version_info_stored(c, mi, d) ==
  [mem |-> c.mem, disk |-> c.disk, outcome |-> "ok", result |-> Some(d),
   calls |-> {CallDetail}, stored |-> TRUE, modinfo |-> mi]
get_version_info_store(m, dsk, s, mi, d) ==
  get_version_info_stored(cache_set(m, dsk, s, mi), mi, d)
get_version_info_fetched(m, dsk, s, modinfo, ver, d) ==
  get_version_info_store(m, dsk, s, WithDetail(modinfo, ver.id, d), d)

\* ModInfoManager.get_version_info(source, modinfo, ver):
\* [mem, disk, outcome, result (the detail), calls, stored, modinfo]
get_version_info(m, dsk, s, modinfo, ver, fail) ==
  IF ver.id \in DOMAIN modinfo.version_info
  THEN [mem |-> m, disk |-> dsk, outcome |-> "ok", result |-> Some(modinfo.version_info[ver.id]),
        calls |-> {}, stored |-> FALSE, modinfo |-> modinfo]
  ELSE IF s = "modrinth" \/ fail = CallDetail
  THEN Raised(m, dsk, {CallDetail}) @@ [modinfo |-> modinfo]
  ELSE get_version_info_fetched(m, dsk, s, modinfo, ver,
                                backend_get_version_info(s, modinfo.mod_desc, ver))

(***************************************************************************)
(* The cache specification: one client of a ModInfoManager asks for the    *)
(* ModInfo and the version details of project "a" on one source, by name   *)
(* or by id, while time passes, the project publishes, the process is      *)
(* restarted and the cached document is damaged.                           *)
(***************************************************************************)
MaxTime == 6
MaxGen == 3

NoCall == [op |-> "none"]
NoSel == [pc |-> "off"]
NoRs == [pc |-> "off"]
NoFc == [pc |-> "off"]
NoRq == [pc |-> "off"]
NoPf == [pc |-> "off"]

\* The ModInfo a lookup by name would find now, if any.
CachedInfo(s, x) == CachedOf(get_by_name(mem, disk, s, x).result)

CacheInit ==
  /\ now = 0
  /\ gen = [n \in Mods |-> 1]
  /\ requires = [n \in Mods |-> {}]
  /\ targets = [n \in Mods |-> PackMc]
  /\ mem = EmptyMem
  /\ disk = EmptyDisk
  /\ csrc \in Sources
  /\ last = NoCall
  /\ sel = NoSel
  /\ rs = NoRs
  /\ fc = NoFc
  /\ rq = NoRq
  /\ pf = NoPf

\* The call returns r: the cache is as the call left it, `last` tells what
\* the call was, found and did.
Returned(r, call) ==
  /\ mem' = r.mem
  /\ disk' = r.disk
  /\ last' = call @@ [wrote |-> r.disk # disk, outcome |-> r.outcome, result |-> r.result,
                      calls |-> r.calls, stored |-> r.stored]

\* await manager.get_modinfo(csrc, Type.MOD, x)
CGetModinfo(x) ==
  /\ last = NoCall
  /\ \E interval \in RecheckIntervals, fail \in {"none", CallDesc, CallVersions} :
       Returned(get_modinfo(mem, disk, csrc, x, now, interval, fail),
                [op |-> "get_modinfo", ident |-> x, pre |-> CachedInfo(csrc, x),
                 found |-> get_by_name(mem, disk, csrc, x).result[1]])
  /\ UNCHANGED <<now, gen, requires, targets, csrc, sel, rs, fc, rq, pf>>

\* The ModInfo the client holds: the one get_modinfo returned last.
Held == mem[<<"by_name", csrc, "a">>]

\* await manager.get_version_info(csrc, info, ver), info being the held
\* ModInfo and ver one of its versions
CGetVersionInfo ==
  /\ last = NoCall
  /\ IsInfo(Held)
  /\ \E i \in 1..Len(Held[2].versions), fail \in {"none", CallDetail} :
       Returned(get_version_info(mem, disk, csrc, Held[2], Held[2].versions[i], fail),
                [op |-> "get_version_info", ident |-> "a", ver |-> Held[2].versions[i],
                 pre |-> Some(Held[2])])
  /\ UNCHANGED <<now, gen, requires, targets, csrc, sel, rs, fc, rq, pf>>

\* The caller takes the result of the call and goes on.
CReturn ==
  /\ last # NoCall
  /\ last' = NoCall
  /\ UNCHANGED <<now, gen, requires, targets, mem, disk, csrc, sel, rs, fc, rq, pf>>

\* datetime.now() moves on between two calls.
Tick ==
  /\ last = NoCall
  /\ now < MaxTime
  /\ now' = now + 1
  /\ UNCHANGED <<gen, requires, targets, mem, disk, csrc, last, sel, rs, fc, rq, pf>>

\* The project publishes a version: its descriptor's `updated` changes.
Publish ==
  /\ last = NoCall
  /\ gen["a"] < MaxGen
  /\ gen' = [gen EXCEPT !["a"] = @ + 1]
  /\ UNCHANGED <<now, requires, targets, mem, disk, csrc, last, sel, rs, fc, rq, pf>>

\* A new process: a new ModInfoManager with an empty in-memory cache.
Restart ==
  /\ last = NoCall
  /\ mem # EmptyMem
  /\ mem' = EmptyMem
  /\ UNCHANGED <<now, gen, requires, targets, disk, csrc, last, sel, rs, fc, rq, pf>>

\* The cached document of the project is damaged between two runs.
Corrupt ==
  /\ last = NoCall
  /\ mem = EmptyMem
  /\ \E k \in Sources \X Idents :
       /\ disk.by_id[k] \notin {NoFile, Malformed}
       /\ disk' = [disk EXCEPT !.by_id[k] = Malformed]
  /\ UNCHANGED <<now, gen, requires, targets, mem, csrc, last, sel, rs, fc, rq, pf>>

CacheNext ==
  \/ \E x \in {"a", IdOf["a"]} : CGetModinfo(x)
  \/ CGetVersionInfo
  \/ CReturn
  \/ Tick
  \/ Publish
  \/ Restart
  \/ Corrupt

SpecCache == CacheInit /\ [][CacheNext]_vars

(***************************************************************************)
(* Claims about the info manager, checked under SpecCache. `last` is the   *)
(* call just made; the clock does not move during a call.                  *)
(***************************************************************************)
AfterGetModinfo == last.op = "get_modinfo"
AgeOfCached == now - last.pre[1].checked

\* C1: with a readable cached ModInfo younger than the minimum recheck
\* interval, get_modinfo returns it without any backend call and without
\* rewriting the cache; with one at least as old as the maximum recheck
\* bound, the descriptor is fetched whatever interval is drawn.
C1_FreshServedStaleRevalidated ==
  (AfterGetModinfo /\ last.pre # None) =>
    /\ AgeOfCached < RECHECK_INTERVAL_MIN =>
         /\ last.calls = {}
         /\ last.outcome = "ok"
         /\ last.result = last.pre
         /\ ~last.stored
         /\ ~last.wrote
    /\ AgeOfCached >= RECHECK_INTERVAL_MAX => CallDesc \in last.calls

C1_Witness ==
  /\ AfterGetModinfo /\ last.pre # None
  /\ AgeOfCached >= RECHECK_INTERVAL_MAX
  /\ CallDesc \in last.calls

C1_WitnessFresh ==
  /\ AfterGetModinfo /\ last.pre # None
  /\ AgeOfCached < RECHECK_INTERVAL_MIN /\ AgeOfCached > 0
  /\ last.calls = {}

\* C6: a failure of the descriptor fetch is fatal only without a cached
\* copy: with a cached ModInfo the call returns it instead of raising.
DescFetchFailed == last.outcome = "raised" /\ last.calls = {CallDesc}

C6_StaleServedWhenFetchFails ==
  (AfterGetModinfo /\ last.pre # None) => ~DescFetchFailed

\* what the code does keep of C6: without a cached copy the failure propagates
C6_UncachedFailurePropagates ==
  (AfterGetModinfo /\ last.pre = None /\ last.calls = {CallDesc}) => last.outcome = "raised"

\* C7: once get_modinfo(source, type, identifier) has fetched the mod, be
\* the identifier a name or an id, a further get_modinfo for the same
\* identifier less than the minimum recheck interval later is served from
\* the cache with no backend call.
NoBackendCall(r) == r.calls = {} /\ r.outcome = "ok"
ServedFromCache(s, x) ==
  \A d \in 0..(RECHECK_INTERVAL_MIN - 1), interval \in RecheckIntervals, fail \in Failures :
    NoBackendCall(get_modinfo(mem, disk, s, x, now + d, interval, fail))

C7_FreshForEveryIdentifier ==
  (AfterGetModinfo /\ last.outcome = "ok" /\ last.calls # {}) => ServedFromCache(csrc, last.ident)

\* what holds of C7: for a project name
C7_FreshForNames ==
  (AfterGetModinfo /\ last.outcome = "ok" /\ last.calls # {} /\ last.ident \in Mods) => ServedFromCache(csrc, last.ident)

\* C8: a revalidation that finds `updated` unchanged asks for the
\* descriptor only, keeps the cached version list and detail map as they
\* are, and stores the ModInfo with checked = now.
Revalidated == AfterGetModinfo /\ last.pre # None /\ last.outcome = "ok" /\ last.calls # {}
SameUpdated == last.result[1].mod_desc.updated = last.pre[1].mod_desc.updated

C8_CheapRevalidationKeepsLists ==
  (Revalidated /\ SameUpdated) =>
    /\ last.calls = {CallDesc}
    /\ last.result[1].versions = last.pre[1].versions
    /\ last.result[1].version_info = last.pre[1].version_info
    /\ last.result[1].checked = now
    /\ mem[<<"by_name", csrc, last.result[1].mod_desc.name>>] = InfoE(last.result[1])
    /\ disk.by_id[csrc, last.result[1].mod_desc.id] = DocFile(serialize_ModInfo(last.result[1]))

\* what holds of C8: the same versions, in whatever order
C8_CheapRevalidationKeepsVersionSet ==
  (Revalidated /\ SameUpdated) =>
    /\ last.calls = {CallDesc}
    /\ Range(last.result[1].versions) = Range(last.pre[1].versions)
    /\ last.result[1].version_info = last.pre[1].version_info
    /\ last.result[1].checked = now

\* C9: a revalidation that finds another `updated` refetches the version
\* list; the detail map afterwards holds every old entry the backend did
\* not describe again and every fresh entry, fresh over old.
DictOf(opt) == IF opt = None THEN EmptyDict ELSE opt[1]
FreshDetail == DictOf(backend_get_versions(csrc, last.result[1].mod_desc).version_info)

\* new holds the old entries that fresh does not describe and all of fresh
IsMerge(old, new, fresh) ==
  /\ DOMAIN new = DOMAIN old \cup DOMAIN fresh
  /\ \A k \in DOMAIN fresh : new[k] = fresh[k]
  /\ \A k \in DOMAIN old \ DOMAIN fresh : new[k] = old[k]

C9_RevalidationMergesDetail ==
  (Revalidated /\ ~SameUpdated) =>
    /\ CallVersions \in last.calls
    /\ IsMerge(last.pre[1].version_info, last.result[1].version_info, FreshDetail)

\* old keeps an entry that fresh does not describe and one that it replaces
MergeMatters(old, fresh) ==
  /\ DOMAIN old \ DOMAIN fresh # {}
  /\ \E k \in DOMAIN old \cap DOMAIN fresh : old[k] # fresh[k]

C9_Witness ==
  /\ Revalidated /\ ~SameUpdated
  /\ MergeMatters(last.pre[1].version_info, FreshDetail)

\* C10: get_version_info asks the backend only when info.version_info has
\* no entry for the version; once it has returned, the detail is in
\* info.version_info and in the cache document, and a further call for the
\* version asks nothing.
AfterGetVersionInfo == last.op = "get_version_info"

\* the cache document f holds detail d for version id
Documented(f, id, d) ==
  /\ f[1] = "doc"
  /\ id \in DOMAIN f[2].version_info
  /\ deserialize_ModVerInfo(f[2].version_info[id]) = d

C10_DetailFetchedOnce ==
  AfterGetVersionInfo =>
    /\ last.calls # {} => last.ver.id \notin DOMAIN last.pre[1].version_info
    /\ last.outcome = "ok" =>
         /\ IsInfo(Held)
         /\ last.ver.id \in DOMAIN Held[2].version_info
         /\ Held[2].version_info[last.ver.id] = last.result[1]
         /\ Documented(disk.by_id[csrc, Held[2].mod_desc.id], last.ver.id, last.result[1])
         /\ \A fail \in Failures :
              get_version_info(mem, disk, csrc, Held[2], last.ver, fail).calls = {}

C10_Witness ==
  AfterGetVersionInfo /\ last.outcome = "ok" /\ last.calls = {CallDetail}

(***************************************************************************)
(* The selection specification: a backend lists some versions of one mod   *)
(* in some order, a ModInfo is built from the list and find_version picks  *)
(* the version for a predicate.                                            *)
(***************************************************************************)
MaxListed == 3

SelPool ==
  { ModVer(1, MkVer(<<I(1), I(0)>>, RELEASE), 1, {PackMc}, {}),
    ModVer(2, MkVer(<<I(1), I(1)>>, BETA), 2, {PackMc}, {}),
    ModVer(3, MkVer(<<I(1), I(1)>>, RELEASE), 3, {PackMc}, {}),
    ModVer(4, MkVer(<<I(1), I(2)>>, RELEASE), 4, {OldMc}, {}),
    ModVer(5, MkVer(<<I(1), I(0), I(1)>>, RELEASE), 5, {OldMc}, {}),
    ModVer(6, MkVer(<<I(2), I(0)>>, RELEASE), 6, {McV(1, 18, 2)}, {}) }

\* ModpakYml.default_mcver_match, default_mcver_fallback_match
default_mcver_match == McVerMatch(Some(PackMc), "")
default_mcver_fallback_match == McVerMatch(Some(PackMc), "^")

\* The predicate resolve builds for a dependency, and the one of a manifest
\* entry that asks for releases only.
RelaxedMvm == ModVerMatch(VerMatch_ANY, None, default_mcver_match, Some(default_mcver_fallback_match))
ReleaseMvm == ModVerMatch(VerMatch(<<>>, RELEASE), None, default_mcver_match,
                          Some(default_mcver_fallback_match))
SelMatchers == {RelaxedMvm, ReleaseMvm}

SelectInit ==
  /\ now = 0
  /\ gen = [n \in Mods |-> 1]
  /\ requires = [n \in Mods |-> {}]
  /\ targets = [n \in Mods |-> PackMc]
  /\ mem = EmptyMem
  /\ disk = EmptyDisk
  /\ csrc = "modrinth"
  /\ last = NoCall
  /\ rs = NoRs
  /\ fc = NoFc
  /\ rq = NoRq
  /\ pf = NoPf
  /\ \E vs \in DistinctSeqs(SelPool, 1, MaxListed), mvm \in SelMatchers :
       sel = [pc |-> "listed", listed |-> vs, mvm |-> mvm]

\* get_modinfo, first fetch: info = ModInfo(now, newdesc, versions, version_info)
SBuild ==
  /\ sel.pc = "listed"
  /\ sel' = [pc |-> "built", listed |-> sel.listed, mvm |-> sel.mvm,
             info |-> ModInfo(now, ModDesc("A", "a", Some(1)), sel.listed, EmptyDict)]
  /\ UNCHANGED <<now, gen, requires, targets, mem, disk, csrc, last, rs, fc, rq, pf>>

\* find_version: latest = info.get_latest_version(mvm)
SChoose ==
  /\ sel.pc = "built"
  /\ sel' = [pc |-> "chosen", listed |-> sel.listed, mvm |-> sel.mvm, info |-> sel.info,
             latest |-> get_latest_version(sel.info, sel.mvm)]
  /\ UNCHANGED <<now, gen, requires, targets, mem, disk, csrc, last, rs, fc, rq, pf>>

SelectNext == SBuild \/ SChoose

SpecSelect == SelectInit /\ [][SelectNext]_vars

AcceptedAs(result) == {v \in Range(sel.listed) : ModVerMatch_test(sel.mvm, v, TRUE) = result}
NoneAbove(v, among) == \A w \in among : w.version = v.version \/ ~Ver_lt(v.version, w.version)

\* C5: the chosen version is the highest-Ver version among those the
\* predicate accepts with SUCCESS; a version accepted as FALLBACK is chosen
\* only when none is accepted with SUCCESS, and is then the highest-Ver
\* among the FALLBACK-accepted ones.
C5_ChosenIsHighest ==
  (sel.pc = "chosen" /\ sel.latest # None) =>
    IF AcceptedAs(RESULT_SUCCESS) # {}
    THEN /\ sel.latest[1] \in AcceptedAs(RESULT_SUCCESS)
         /\ NoneAbove(sel.latest[1], AcceptedAs(RESULT_SUCCESS))
    ELSE /\ sel.latest[1] \in AcceptedAs(RESULT_FALLBACK)
         /\ NoneAbove(sel.latest[1], AcceptedAs(RESULT_FALLBACK))

\* what holds of C5: the chosen version is accepted, and as FALLBACK only
\* when none is accepted with SUCCESS
C5_ChosenIsAccepted ==
  (sel.pc = "chosen" /\ sel.latest # None) =>
    IF AcceptedAs(RESULT_SUCCESS) # {}
    THEN sel.latest[1] \in AcceptedAs(RESULT_SUCCESS)
    ELSE sel.latest[1] \in AcceptedAs(RESULT_FALLBACK)

(***************************************************************************)
(* resolve.py: find_version, resolve                                       *)
(*                                                                         *)
(* The state of one resolve call: st.manifest is                           *)
(* modpak.build_type_mods(build_type), st.idx the entry the first loop is  *)
(* at, st.resolved the dict `resolved` in insertion order, st.deps the     *)
(* list `deps`, st.mem and st.disk the manager's cache. A ResolvedMod      *)
(* refers to its ModInfo (mod) and to its dependents by name.              *)
(***************************************************************************)
ModConf(name, source, version) == [name |-> name, source |-> source, version |-> version]

ResolvedMod(mod, ver, source, conf, dependents) ==
  [mod |-> mod, ver |-> ver, source |-> source, conf |-> conf, dependents |-> dependents]

\* find_version ends without a result: a backend request raised, or
\* latest is None and latest.published cannot be read ("crash")
Stopped(outcome, m, dsk) ==
  [mem |-> m, disk |-> dsk, outcome |-> outcome, info |-> None, pair |-> None, warned |-> FALSE]

\* pair = await manager.get_version_info(source, info, latest); return info, pair
find_version_pair(pv, ver, warned) ==
  IF pv.outcome # "ok" THEN Stopped("raised", pv.mem, pv.disk)
  ELSE [mem |-> pv.mem, disk |-> pv.disk, outcome |-> "ok", info |-> Some(pv.modinfo),
        pair |-> Some([ver |-> ver, info |-> pv.result[1]]), warned |-> warned]

\* vers = sorted(info.get_versions(mvm), key=published, reverse=True);
\* latest.published != vers[0].published
find_version_latest(m, dsk, info, latest, source, mvm, fail) ==
  IF latest = None THEN Stopped("crash", m, dsk)
  ELSE find_version_pair(get_version_info(m, dsk, source, info, latest[1], fail), latest[1],
         latest[1].published # SortedByPublishedReverse(get_versions(info, mvm))[1].published)

\* info = await manager.get_modinfo(source, type, name)
find_version_info(g, source, mvm, fail) ==
  IF g.outcome # "ok" THEN Stopped("raised", g.mem, g.disk)
  ELSE find_version_latest(g.mem, g.disk, g.result[1], get_latest_version(g.result[1], mvm),
                           source, mvm, fail)

\* find_version: [mem, disk, outcome, info, pair, warned]
find_version(m, dsk, name, source, mvm, t, fail) ==
  find_version_info(get_modinfo(m, dsk, source, name, t, RECHECK_INTERVAL_MIN, fail),
                    source, mvm, fail)

\* dict: resolved.get(name), resolved[name] = r
HasKey(resolved, name) == \E i \in 1..Len(resolved) : resolved[i].key = name
KeyIndex(resolved, name) == CHOOSE i \in 1..Len(resolved) : resolved[i].key = name
SetKey(resolved, name, r) ==
  IF HasKey(resolved, name)
  THEN [resolved EXCEPT ![KeyIndex(resolved, name)] = [key |-> name, r |-> r]]
  ELSE Append(resolved, [key |-> name, r |-> r])

RequiredOf_optional_too(pair, rname) ==
  AsSeq([i \in 1..Len(pair.info.dependencies) |-> <<pair.info.dependencies[i].id, rname>>])

\* for dep in pair.dependencies: if dep.is_required: deps.append((dep.id, r))
RequiredOf(pair, rname) ==
  AsSeq([i \in 1..Len(SelectSeq(pair.info.dependencies, LAMBDA d : d.is_required)) |->
           <<SelectSeq(pair.info.dependencies, LAMBDA d : d.is_required)[i].id, rname>>])

Loader == "forge"

\* the pc after a step that leaves the first loop at entry idx with deps
NextPc(manifest, idx, deps) ==
  IF idx <= Len(manifest) THEN "manifest" ELSE IF deps # <<>> THEN "drain" ELSE "done"

\* The exception of find_version leaves resolve: its locals are gone, what
\* the manager cached stays.
Abort(st, f) ==
  [pc |-> f.outcome, manifest |-> st.manifest, idx |-> 1, resolved |-> <<>>, deps |-> <<>>,
   warnings |-> <<>>, local |-> <<>>, mem |-> f.mem, disk |-> f.disk]

\* r = ResolvedMod(...); resolved[name] = r; its required dependencies queued
Resolved(st, name, r, deps, f, idx) ==
  [st EXCEPT !.resolved = SetKey(@, name, r),
             !.deps = deps,
             !.warnings = IF f.warned THEN Append(@, name) ELSE @,
             !.idx = idx,
             !.pc = NextPc(st.manifest, idx, deps),
             !.mem = f.mem, !.disk = f.disk]

ManifestResolved(st, mod, f) ==
  IF f.outcome # "ok" THEN Abort(st, f)
  ELSE Resolved(st, mod.name,
                ResolvedMod(<<mod.source, f.info[1].mod_desc.id>>, f.pair[1].ver, mod.source,
                            Some(mod), <<>>),
                st.deps \o RequiredOf(f.pair[1], mod.name), f, st.idx + 1)

\* One iteration of the loop over the manifest (lines 80-91)
ManifestEntry(st, mod, t, fail) ==
  IF mod.source = "local"
  THEN [st EXCEPT !.local = Append(@, mod), !.idx = @ + 1,
                  !.pc = NextPc(st.manifest, st.idx + 1, st.deps)]
  ELSE ManifestResolved(st, mod,
         find_version(st.mem, st.disk, mod.name, mod.source,
                      ModVerMatch(mod.version, Some(Loader), default_mcver_match,
                                  Some(default_mcver_fallback_match)),
                      t, fail))

ManifestStep(st, t, fail) == ManifestEntry(st, st.manifest[st.idx], t, fail)

AddDependent_dropped(resolved, name, dependent) == resolved

\* dep.dependents.append(dependent)
AddDependent(resolved, name, dependent) ==
  [resolved EXCEPT ![KeyIndex(resolved, name)].r.dependents = Append(@, dependent)]

DrainResolved(st, name, dependent, dsource, rest, f) ==
  IF f.outcome # "ok" THEN Abort(st, f)
  ELSE Resolved(st, name,
                ResolvedMod(<<dsource, f.info[1].mod_desc.id>>, f.pair[1].ver, dsource, None,
                            <<dependent>>),
                rest \o RequiredOf(f.pair[1], name), f, st.idx)

\* the dependency is not resolved yet: it is looked for on the source of
\* the dependent, with the manifest's defaults
DrainFind(st, name, dependent, dsource, rest, t, fail) ==
  DrainResolved(st, name, dependent, dsource, rest,
    find_version(st.mem, st.disk, name, dsource,
                 ModVerMatch(VerMatch_ANY, Some(Loader), default_mcver_match,
                             Some(default_mcver_fallback_match)),
                 t, fail))

DrainPopped_refetching(st, name, dependent, rest, t, fail) ==
  DrainFind(st, name, dependent, st.resolved[KeyIndex(st.resolved, dependent)].r.source,
            rest, t, fail)

\* name, dependent = deps.pop()
DrainPopped(st, name, dependent, rest, t, fail) ==
  IF HasKey(st.resolved, name)
  THEN [st EXCEPT !.resolved = AddDependent(@, name, dependent),
                  !.deps = rest,
                  !.pc = NextPc(st.manifest, st.idx, rest)]
  ELSE DrainFind(st, name, dependent, st.resolved[KeyIndex(st.resolved, dependent)].r.source,
                 rest, t, fail)

\* One iteration of `while deps` (lines 96-107)
DrainStep(st, t, fail) ==
  DrainPopped(st, st.deps[Len(st.deps)][1], st.deps[Len(st.deps)][2],
              SubSeq(st.deps, 1, Len(st.deps) - 1), t, fail)

\* resolve up to its first await
ResolveStart(manifest) ==
  [pc |-> "manifest", manifest |-> manifest, idx |-> 1, resolved |-> <<>>, deps |-> <<>>,
   warnings |-> <<>>, local |-> <<>>, mem |-> EmptyMem, disk |-> EmptyDisk]

ResolveStep(st, t, fail) ==
  IF st.pc = "manifest" THEN ManifestStep(st, t, fail) ELSE DrainStep(st, t, fail)

(***************************************************************************)
(* The resolve specification: one resolve call of a new manager on a       *)
(* manifest of up to MaxManifest entries, against registries in which      *)
(* every project has two versions.                                         *)
(***************************************************************************)
MaxManifest == 2

\* The entries a manifest is made of: every project from either source,
\* "a" also with releases only, "c" also as a local file, "b" also pinned
\* to a version that was never published.
Entries ==
  {ModConf(n, s, VerMatch_ANY) : n \in Mods, s \in Sources}
    \cup {ModConf("a", s, VerMatch(<<>>, RELEASE)) : s \in Sources}
    \cup {ModConf("c", "local", VerMatch_ANY)}
    \cup {ModConf("b", "modrinth", VerMatch(<<VerCmp(Some(MkVer(<<I(9)>>, RELEASE)), "")>>, ALPHA))}

Manifests ==
  {m \in UNION {[1..n -> Entries] : n \in 1..MaxManifest} :
     \A i, j \in 1..Len(m) : i # j => m[i].name # m[j].name}

Registries == {r \in [Mods -> SUBSET Mods] : \A n \in Mods : n \notin r[n]}

CallState(r, m, d) == r @@ [mem |-> m, disk |-> d]
OfCall(st) ==
  [pc |-> st.pc, manifest |-> st.manifest, idx |-> st.idx, resolved |-> st.resolved,
   deps |-> st.deps, warnings |-> st.warnings, local |-> st.local]

ResolveInit ==
  /\ now = 0
  /\ gen = [n \in Mods |-> 2]
  /\ requires \in Registries
  /\ targets = [n \in Mods |-> PackMc]
  /\ mem = EmptyMem
  /\ disk = EmptyDisk
  /\ csrc = "modrinth"
  /\ last = NoCall
  /\ sel = NoSel
  /\ \E m \in Manifests : rs = OfCall(ResolveStart(m))
  /\ fc = NoFc
  /\ rq = NoRq
  /\ pf = NoPf

\* resolve is at st after the step
Stepped(st) ==
  /\ rs' = OfCall(st)
  /\ mem' = st.mem
  /\ disk' = st.disk

\* for mod in modpak.build_type_mods(build_type): ...
RManifest ==
  /\ rs.pc = "manifest"
  /\ \E fail \in {"none", CallDesc} : Stepped(ManifestStep(CallState(rs, mem, disk), now, fail))
  /\ UNCHANGED <<now, gen, requires, targets, csrc, last, sel, fc, rq, pf>>

\* while deps: ...
RDrain ==
  /\ rs.pc = "drain"
  /\ \E fail \in {"none", CallDesc} : Stepped(DrainStep(CallState(rs, mem, disk), now, fail))
  /\ UNCHANGED <<now, gen, requires, targets, csrc, last, sel, fc, rq, pf>>

ResolveNext == RManifest \/ RDrain

SpecResolve == ResolveInit /\ [][ResolveNext]_vars

\* ResolveResult.downloaded: list(resolved.values())
Downloaded(st) == AsSeq([i \in 1..Len(st.resolved) |-> st.resolved[i].r])
NameOf(r) == CHOOSE n \in Mods : <<r.source, IF r.source = "modrinth" THEN IdOf[n] ELSE n>> = r.mod
DownloadedNames(st) == {NameOf(r) : r \in Range(Downloaded(st))}

\* the mods the chosen version of r requires
RequiredBy(r) ==
  {d.id : d \in {e \in Range(DepsOf(NameOf(r), r.ver.id, gen[NameOf(r)])) : e.is_required}}

RECURSIVE ClosureFrom(_, _)
ClosureFrom(seen, chosenReq) ==
  LET more == UNION {chosenReq[n] : n \in seen} \ seen
  IN IF more = {} THEN seen ELSE ClosureFrom(seen \cup more, chosenReq)

\* what the chosen version of each downloaded mod requires (nothing is
\* known of a mod that was not downloaded)
ChosenReq(st) ==
  [n \in Mods |-> UNION {RequiredBy(r) : r \in {x \in Range(Downloaded(st)) : NameOf(x) = n}}]

RemoteEntries(st) == {st.manifest[i].name : i \in {j \in 1..Len(st.manifest) : st.manifest[j].source # "local"}}

\* C2: downloaded holds exactly one ResolvedMod for every remote manifest
\* entry and for every mod reachable from those through required
\* dependencies of the chosen versions, no mod twice and none else.
C2_DownloadedIsClosure ==
  rs.pc = "done" =>
    /\ \A i, j \in 1..Len(rs.resolved) :
         i # j => NameOf(rs.resolved[i].r) # NameOf(rs.resolved[j].r)
    /\ DownloadedNames(rs) = ClosureFrom(RemoteEntries(rs), ChosenReq(rs))

C2_Witness ==
  /\ rs.pc = "done"
  /\ DownloadedNames(rs) \ RemoteEntries(rs) # {}
  /\ \E r \in Range(Downloaded(rs)) :
       \E d \in Range(DepsOf(NameOf(r), r.ver.id, gen[NameOf(r)])) :
         ~d.is_required /\ d.id \notin DownloadedNames(rs)

\* C3: the dependents of every resolved mod X are the resolved mods whose
\* chosen version requires X, each once.
C3_DependentsAreRequirers ==
  rs.pc = "done" =>
    \A r \in Range(Downloaded(rs)) :
      /\ Range(r.dependents) = {NameOf(x) : x \in {y \in Range(Downloaded(rs)) : NameOf(r) \in RequiredBy(y)}}
      /\ \A i, j \in 1..Len(r.dependents) : i # j => r.dependents[i] # r.dependents[j]

C3_Witness ==
  /\ rs.pc = "done"
  /\ \E r \in Range(Downloaded(rs)) : Len(r.dependents) = 2
  /\ \E r \in Range(Downloaded(rs)) : r.dependents = <<>>

\* The same call run to its end without a failure
RECURSIVE RunToEnd(_)
RunToEnd(st) ==
  IF st.pc \in {"manifest", "drain"} THEN RunToEnd(ResolveStep(st, now, "none")) ELSE st

\* The manifest's entries in every order
Reorderings(m) == {p \in [1..Len(m) -> Range(m)] : Range(p) = Range(m)}

\* The resolved set: per mod the chosen version, the source, the explicit
\* flag and the set of dependents
ResolvedSet(st) ==
  {[name |-> NameOf(r), ver |-> r.ver, source |-> r.source, explicit |-> r.conf # None,
    dependents |-> Range(r.dependents)] : r \in Range(Downloaded(st))}

\* C4: for a fixed manifest and registry the resolved set is the same in
\* whatever order the manifest lists its entries (and so in whatever order
\* the dependencies are queued and drained), also when the requesters of a
\* shared dependency come from different sources.
EndsWith(e, set) == e.pc = "done" /\ ResolvedSet(e) = set

C4_OrderIndependent ==
  rs.pc = "done" =>
    \A p \in Reorderings(rs.manifest) : EndsWith(RunToEnd(ResolveStart(p)), ResolvedSet(rs))

\* what holds of C4: when the remote entries of the manifest share a source
C4_OrderIndependentOneSource ==
  (rs.pc = "done" /\ \E s \in Sources : \A i \in 1..Len(rs.manifest) :
                        rs.manifest[i].source \in {s, "local"}) =>
    \A p \in Reorderings(rs.manifest) : EndsWith(RunToEnd(ResolveStart(p)), ResolvedSet(rs))

(***************************************************************************)
(* infomanager.py: the downloaded files. ModInfoCache.file_cache maps a    *)
(* file name to False-absent (Missing), None or the path of the file in    *)
(* the files directory.                                                     *)
(***************************************************************************)
MaxDownloads == 2

FileNames == {<<"a", k>> : k \in 1..MaxGen}

\* ModInfoCache.file_path
file_path(filename) == <<"files", filename>>

EmptyFileCache == [f \in FileNames |-> Missing]

\* the backend request of get_file
CallFile == "get_file"

\* ModInfoCache.get_file: [file_cache, result], result None or a path
cache_get_file(file_cache, files, filename) ==
  IF file_cache[filename] # Missing
  THEN [file_cache |-> file_cache, result |-> file_cache[filename]]
  ELSE IF filename \in files
  THEN [file_cache |-> [file_cache EXCEPT ![filename] = Some(file_path(filename))],
        result |-> Some(file_path(filename))]
  ELSE [file_cache |-> [file_cache EXCEPT ![filename] = None], result |-> None]

get_file_downloaded_unrecorded(f, file_cache, filename) ==
  [f EXCEPT !.file_cache = file_cache,
            !.files = @ \cup {filename},
            !.downloads[filename] = @ + 1]

\* get_file after the backend wrote the file: assert access(p, R_OK);
\* self.cache.file_cache[ver.filename] = p
get_file_downloaded(f, file_cache, filename) ==
  [f EXCEPT !.file_cache = [file_cache EXCEPT ![filename] = Some(file_path(filename))],
            !.files = @ \cup {filename},
            !.downloads[filename] = @ + 1]

\* get_file after the lookup g of the file cache
get_file_looked_up(r, f, g, filename, fail) ==
  IF g.result # None
  THEN [r EXCEPT !.result = g.result] @@ [fc |-> [f EXCEPT !.file_cache = g.file_cache]]
  ELSE IF fail = CallFile
  THEN [r EXCEPT !.outcome = "raised", !.result = None, !.calls = @ \cup {CallFile}]
         @@ [fc |-> [f EXCEPT !.file_cache = g.file_cache,
                              !.absent = @ \cup {filename}]]
  ELSE [r EXCEPT !.result = Some(file_path(filename)), !.calls = @ \cup {CallFile}]
         @@ [fc |-> [get_file_downloaded(f, g.file_cache, filename)
                       EXCEPT !.absent = @ \cup {filename}]]

\* get_file after get_version_info returned r
get_file_detailed(r, f, fail) ==
  IF r.outcome = "raised" THEN r @@ [fc |-> f]
  ELSE get_file_looked_up(r, f,
         cache_get_file(f.file_cache, f.files, r.result[1].file.filename),
         r.result[1].file.filename, fail)

\* ModInfoManager.get_file(source, modinfo, ver):
\* [mem, disk, outcome, result (the path), calls, stored, modinfo, fc]
get_file(m, dsk, f, s, modinfo, ver, fail) ==
  get_file_detailed(get_version_info(m, dsk, s, modinfo, ver, fail), f, fail)

(***************************************************************************)
(* The file specification: one client holds the ModInfo of project "a"    *)
(* and asks for the files of its versions, one call after the other; a     *)
(* request may fail and the process may be restarted.                      *)
(***************************************************************************)
FetchedAtStart(s) == get_modinfo(EmptyMem, EmptyDisk, s, "a", 0, RECHECK_INTERVAL_MIN, "none")

FileInit ==
  /\ now = 0
  /\ \E g \in 1..MaxGen : gen = [n \in Mods |-> IF n = "a" THEN g ELSE 1]
  /\ requires = [n \in Mods |-> {}]
  /\ targets = [n \in Mods |-> PackMc]
  /\ csrc \in Sources
  /\ mem = FetchedAtStart(csrc).mem
  /\ disk = FetchedAtStart(csrc).disk
  /\ last = NoCall
  /\ sel = NoSel
  /\ rs = NoRs
  /\ fc = [pc |-> "on", file_cache |-> EmptyFileCache, files |-> {},
           downloads |-> [f \in FileNames |-> 0], absent |-> {}]
  /\ rq = NoRq
  /\ pf = NoPf

\* The call of get_file for ver returned r.
FileReturned(r, ver) ==
  /\ mem' = r.mem
  /\ disk' = r.disk
  /\ fc' = r.fc
  /\ last' = [op |-> "get_file", filename |-> <<"a", ver.id>>, outcome |-> r.outcome,
              result |-> r.result, calls |-> r.calls,
              before |-> fc.downloads[<<"a", ver.id>>],
              known |-> fc.file_cache[<<"a", ver.id>>]]

\* await manager.get_file(csrc, info, ver), info being the held ModInfo
FGetFile ==
  /\ last = NoCall
  /\ IsInfo(Held)
  /\ \A f \in FileNames : fc.downloads[f] < MaxDownloads
  /\ \E i \in 1..Len(Held[2].versions), fail \in {"none", CallDetail, CallFile} :
       FileReturned(get_file(mem, disk, fc, csrc, Held[2], Held[2].versions[i], fail),
                    Held[2].versions[i])
  /\ UNCHANGED <<now, gen, requires, targets, csrc, sel, rs, rq, pf>>

\* The caller takes the path and goes on.
FReturn ==
  /\ last # NoCall
  /\ last' = NoCall
  /\ UNCHANGED <<now, gen, requires, targets, mem, disk, csrc, sel, rs, fc, rq, pf>>

\* A new process: a new ModInfoCache, whose client asks for the ModInfo
\* again; the files directory is as the old process left it.
FRestart ==
  /\ last = NoCall
  /\ fc.file_cache # EmptyFileCache
  /\ mem' = get_modinfo(EmptyMem, disk, csrc, "a", now, RECHECK_INTERVAL_MIN, "none").mem
  /\ fc' = [fc EXCEPT !.file_cache = EmptyFileCache]
  /\ UNCHANGED <<now, gen, requires, targets, disk, csrc, last, sel, rs, rq, pf>>

FileNext ==
  \/ FGetFile
  \/ FReturn
  \/ FRestart

SpecFile == FileInit /\ [][FileNext]_vars

AfterGetFile == last # NoCall /\ last.op = "get_file"

\* C11: the backend download of a file is performed at most once: a call
\* made after the file was downloaded returns its path without a backend
\* request, whatever the in-memory file cache recorded before, and no file
\* is downloaded twice.
C11_FileDownloadedOnce ==
  /\ \A f \in FileNames : fc.downloads[f] <= 1
  /\ (AfterGetFile /\ last.before >= 1) =>
       /\ last.outcome = "ok"
       /\ last.result = Some(file_path(last.filename))
       /\ CallFile \notin last.calls

\* A call served without download for a file the file cache had once
\* recorded as absent, the record being None when an earlier call
\* downloaded it.
C11_Witness ==
  /\ AfterGetFile
  /\ last.before = 1
  /\ last.filename \in fc.absent
  /\ last.outcome = "ok"
  /\ CallFile \notin last.calls

(***************************************************************************)
(* modrinth.py: Modrinth.get_json. active_requests maps a request path to  *)
(* the asyncio task fetching it; a caller awaits the task of its path.     *)
(* rq.tasks are the tasks created so far, rq.callers the calls of get_json *)
(* made so far, rq.rev the state of the data the server answers with.      *)
(***************************************************************************)
MaxCallers == 3
MaxRev == 2

Paths == {"/v2/project/a", "/v2/project/a/version"}

\* create_task(self._get_json(path))
Task(path) == [path |-> path, state |-> "pending", result |-> None]

\* task = create_task(...); self.active_requests[path] = task
create_task(q, path) ==
  [q EXCEPT !.tasks = Append(@, Task(path)),
            !.active_requests[path] = Some(Len(q.tasks) + 1)]

get_json_task_uncoalesced(q, path) == create_task(q, path)

\* if not (task := self.active_requests.get(path)): ...; a Task is truthy
get_json_task(q, path) ==
  IF q.active_requests[path] # None THEN q ELSE create_task(q, path)

\* return await task: the caller waits for the task of its path; `found`
\* is what the caller found in active_requests.
get_json_await(q, path, found) ==
  [q EXCEPT !.callers = Append(@, [path |-> path, task |-> q.active_requests[path][1],
                                   state |-> "waiting", got |-> None, found |-> found])]

\* what active_requests holds for the path: nothing, a pending task or a
\* finished one
FoundIn(q, path) ==
  IF q.active_requests[path] = None THEN "nothing"
  ELSE q.tasks[q.active_requests[path][1]].state

\* Modrinth.get_json(path) up to its await
get_json(q, path) == get_json_await(get_json_task(q, path), path, FoundIn(q, path))

\* _get_json ends: the task holds the JSON of the response or the exception
task_done(q, i, ok) ==
  [q EXCEPT !.tasks[i].state = IF ok THEN "done" ELSE "failed",
            !.tasks[i].result = IF ok THEN Some(<<q.tasks[i].path, q.rev>>) ELSE None]

\* await task returns the task's result or raises its exception
get_json_resumed(q, c) ==
  [q EXCEPT !.callers[c].state = "returned",
            !.callers[c].got = <<q.tasks[q.callers[c].task].state,
                                 q.tasks[q.callers[c].task].result>>]

RequestInit ==
  /\ now = 0
  /\ gen = [n \in Mods |-> 1]
  /\ requires = [n \in Mods |-> {}]
  /\ targets = [n \in Mods |-> PackMc]
  /\ mem = EmptyMem
  /\ disk = EmptyDisk
  /\ csrc = "modrinth"
  /\ last = NoCall
  /\ sel = NoSel
  /\ rs = NoRs
  /\ fc = NoFc
  /\ rq = [pc |-> "on", active_requests |-> [p \in Paths |-> None], tasks |-> <<>>,
           callers |-> <<>>, rev |-> 1]
  /\ pf = NoPf

\* a coroutine calls get_json(path) and runs to its await
QGetJson(path) ==
  /\ Len(rq.callers) < MaxCallers
  /\ rq' = get_json(rq, path)
  /\ UNCHANGED <<now, gen, requires, targets, mem, disk, csrc, last, sel, rs, fc, pf>>

\* the HTTP request of a task ends with a response or with an error
QFinish(ok) ==
  /\ \E i \in 1..Len(rq.tasks) :
       /\ rq.tasks[i].state = "pending"
       /\ rq' = task_done(rq, i, ok)
  /\ UNCHANGED <<now, gen, requires, targets, mem, disk, csrc, last, sel, rs, fc, pf>>

\* the event loop resumes a caller whose task has finished
QResume ==
  /\ \E c \in 1..Len(rq.callers) :
       /\ rq.callers[c].state = "waiting"
       /\ rq.tasks[rq.callers[c].task].state # "pending"
       /\ rq' = get_json_resumed(rq, c)
  /\ UNCHANGED <<now, gen, requires, targets, mem, disk, csrc, last, sel, rs, fc, pf>>

\* the data behind the endpoints changes
QChange ==
  /\ rq.rev < MaxRev
  /\ rq' = [rq EXCEPT !.rev = @ + 1]
  /\ UNCHANGED <<now, gen, requires, targets, mem, disk, csrc, last, sel, rs, fc, pf>>

RequestNext ==
  \/ \E path \in Paths : QGetJson(path)
  \/ QFinish(TRUE)
  \/ QFinish(FALSE)
  \/ QResume
  \/ QChange

SpecRequest == RequestInit /\ [][RequestNext]_vars

PendingTasks(path) ==
  {i \in 1..Len(rq.tasks) : rq.tasks[i].path = path /\ rq.tasks[i].state = "pending"}

\* C12: a get_json call made while a request for the same path is in
\* flight starts no second request: a path has at most one pending task,
\* the caller awaits that task, and the callers of one task observe the
\* same result or the same failure.
C12_InFlightCoalesced ==
  /\ \A path \in Paths : Cardinality(PendingTasks(path)) <= 1
  /\ \A d \in 1..Len(rq.callers) :
       rq.callers[d].found = "pending" =>
         \E c \in 1..(d - 1) : rq.callers[c].task = rq.callers[d].task
  /\ \A c, d \in 1..Len(rq.callers) :
       (rq.callers[c].task = rq.callers[d].task /\ rq.callers[c].state = "returned"
          /\ rq.callers[d].state = "returned")
         => rq.callers[c].got = rq.callers[d].got

\* two callers of one path, the second having joined the pending request of
\* the first, have both resumed, the second before or after the first
C12_Witness ==
  \E c, d \in 1..Len(rq.callers) :
    /\ c < d
    /\ rq.callers[d].found = "pending"
    /\ rq.callers[c].task = rq.callers[d].task
    /\ rq.callers[c].state = "returned"
    /\ rq.callers[d].state = "returned"
    /\ Len(rq.tasks) = 1

\* C13: active_requests holds an entry for a path only while its request is
\* pending, so that a get_json call made after the request completed,
\* with a response or with an error, finds no entry and starts a new fetch.
C13_EntryOnlyWhilePending ==
  /\ \A path \in Paths :
       rq.active_requests[path] # None =>
         rq.tasks[rq.active_requests[path][1]].state = "pending"
  /\ \A d \in 1..Len(rq.callers) : rq.callers[d].found \in {"nothing", "pending"}

(***************************************************************************)
(* Claims about find_version's warning and its missing version, checked    *)
(* under SpecResolve.                                                      *)
(***************************************************************************)
\* The versions the backend lists for the mod of r, game version and
\* maturity not looked at, that are higher than the one chosen for r
HigherThanChosen(r) ==
  {v \in Range(ListedVersions(NameOf(r))) :
     v.version # r.ver.version /\ Ver_lt(r.ver.version, v.version)}

\* C14: when resolve returns, every downloaded mod for which a published
\* version with a higher Ver than the chosen one exists has a warning
\* recorded under its name.
C14_WarnsWhenHigherExists ==
  rs.pc = "done" =>
    \A r \in Range(Downloaded(rs)) :
      HigherThanChosen(r) # {} => NameOf(r) \in Range(rs.warnings)

\* C15: when no published version satisfies the predicate of a mod,
\* resolve stops with a "no matching version" error of its own: it is
\* never stopped by reading a field of the null version it selected.
C15_NoMatchingVersionIsNamedError == rs.pc # "crash"

(***************************************************************************)
(* The game-version match specification: McVerMatch.__call__ applied to    *)
(* every matcher and every game version of a small range of releases.      *)
(***************************************************************************)
MaxPatch == 3

McVers == {McV(1, minor, patch) : minor \in 17..19, patch \in 0..MaxPatch}
McVerMatchers ==
  {McVerMatch_ANY} \cup {McVerMatch(Some(v), op) : v \in McVers, op \in {"", "^"}}

McMatchInit ==
  /\ now = 0
  /\ gen = [n \in Mods |-> 1]
  /\ requires = [n \in Mods |-> {}]
  /\ targets = [n \in Mods |-> PackMc]
  /\ mem = EmptyMem
  /\ disk = EmptyDisk
  /\ csrc = "modrinth"
  /\ last = NoCall
  /\ sel = NoSel
  /\ rs = NoRs
  /\ fc = NoFc
  /\ rq = NoRq
  /\ \E m \in McVerMatchers, v \in McVers : pf = [pc |-> "mcver", m |-> m, other |-> v]

\* m(other)
PMcVerMatch ==
  /\ pf.pc = "mcver"
  /\ pf' = [pf EXCEPT !.pc = "mcver_matched"] @@ [accepted |-> McVerMatch_call(pf.m, pf.other)]
  /\ UNCHANGED <<now, gen, requires, targets, mem, disk, csrc, last, sel, rs, fc, rq>>

McMatchNext == PMcVerMatch

SpecMcMatch == McMatchInit /\ [][McMatchNext]_vars

\* what the matcher is documented to accept
McVerMatch_documented(m, other) ==
  IF m.ver = None THEN TRUE
  ELSE IF m.operator = "" THEN other = m.ver[1]
  ELSE /\ other.major = m.ver[1].major
       /\ other.minor = m.ver[1].minor
       /\ other.patch >= m.ver[1].patch

\* C16: a compatible matcher ^M.m.p accepts exactly the game versions
\* M.m.q with q >= p, an exact matcher only the equal version, ANY every
\* version.
C16_CompatibleAcceptsSameMinorAtLeast ==
  pf.pc = "mcver_matched" => (pf.accepted <=> McVerMatch_documented(pf.m, pf.other))

(***************************************************************************)
(* The Ver comparison specification: the comparisons of Ver applied to     *)
(* every three Vers of up to MaxTokens tokens.                             *)
(***************************************************************************)
MaxTokens == 2

Tokens == {I(1), I(2), S("a"), S("x")}
Vers ==
  {MkVer(toks, type) : toks \in UNION {[1..n -> Tokens] : n \in 1..MaxTokens},
                       type \in {RELEASE, BETA}}

VerInit ==
  /\ now = 0
  /\ gen = [n \in Mods |-> 1]
  /\ requires = [n \in Mods |-> {}]
  /\ targets = [n \in Mods |-> PackMc]
  /\ mem = EmptyMem
  /\ disk = EmptyDisk
  /\ csrc = "modrinth"
  /\ last = NoCall
  /\ sel = NoSel
  /\ rs = NoRs
  /\ fc = NoFc
  /\ rq = NoRq
  /\ \E a, b, c \in Vers : pf = [pc |-> "ver", a |-> a, b |-> b, c |-> c]

\* a < b, b < a, a == b, a <= b, a >= b, a > b, b < c, a < c
PCompare ==
  /\ pf.pc = "ver"
  /\ pf' = [pf EXCEPT !.pc = "ver_compared"]
             @@ [lt |-> Ver_lt(pf.a, pf.b), tl |-> Ver_lt(pf.b, pf.a), eq |-> pf.a = pf.b,
                 le |-> Ver_le(pf.a, pf.b), ge |-> Ver_ge(pf.a, pf.b), gt |-> Ver_gt(pf.a, pf.b),
                 lt_bc |-> Ver_lt(pf.b, pf.c), lt_ac |-> Ver_lt(pf.a, pf.c)]
  /\ UNCHANGED <<now, gen, requires, targets, mem, disk, csrc, last, sel, rs, fc, rq>>

VerNext == PCompare

SpecVer == VerInit /\ [][VerNext]_vars

ExactlyOne(x, y, z) == (x /\ ~y /\ ~z) \/ (~x /\ y /\ ~z) \/ (~x /\ ~y /\ z)

\* C18: the comparison of Vers is a total order consistent with equality:
\* exactly one of a < b, a == b, b < a holds, < is transitive, and equal
\* Vers compare equal (<= and >= hold, < and > do not).
C18_VerTotalOrder ==
  pf.pc = "ver_compared" =>
    /\ ExactlyOne(pf.lt, pf.eq, pf.tl)
    /\ (pf.lt /\ pf.lt_bc) => pf.lt_ac
    /\ pf.eq => (pf.le /\ pf.ge /\ ~pf.lt /\ ~pf.gt)

IsProperPrefix(s, t) == Len(s) < Len(t) /\ SubSeq(t, 1, Len(s)) = s

\* C19: a missing component sorts lowest: when the tokens of a are a
\* proper prefix of the tokens of b, a < b holds and b < a does not.
C19_PrefixSortsLower ==
  (pf.pc = "ver_compared" /\ IsProperPrefix(pf.a.version, pf.b.version)) =>
    (pf.lt /\ ~pf.tl)

(***************************************************************************)
(* The predicate specification: ModVerMatch.test applied to every          *)
(* predicate and every version of a small range, with and without          *)
(* fallback.                                                               *)
(***************************************************************************)
\* raw version strings and substring filters, as sequences of characters
RawForge == <<"1", ".", "0", "-", "F", "o", "r", "g", "e">>
RawPlain == <<"1", ".", "0">>
StrFilters == {None, Some(<<>>), Some(<<"F", "O", "R", "G", "E">>), Some(<<"r", "c">>)}

\* a ModVer given with its raw version_string
ModVer_raw(v, version_string) == v @@ [version_string |-> version_string]

TestVers ==
  {ModVer_raw(ModVer(1, MkVer(<<I(1), I(0)>>, type), 1, mcversions, loaders), raw) :
     type \in {RELEASE, BETA},
     mcversions \in {{}, {PackMc}, {OldMc}, {OldMc, McV(1, 18, 2)}},
     loaders \in {{}, {"forge"}, {"fabric"}},
     raw \in {RawForge, RawPlain}}

TestMatchers ==
  {ModVerMatch_filtered(ver, loader, mcver, mcver_fallback, filter) :
     ver \in {VerMatch_ANY, VerMatch(<<>>, RELEASE)},
     loader \in {None, Some(Loader)},
     mcver \in {default_mcver_match, McVerMatch_ANY},
     mcver_fallback \in {None, Some(McVerMatch_ANY), Some(McVerMatch(Some(OldMc), "")),
                         Some(default_mcver_fallback_match)},
     filter \in StrFilters}

TestInit ==
  /\ now = 0
  /\ gen = [n \in Mods |-> 1]
  /\ requires = [n \in Mods |-> {}]
  /\ targets = [n \in Mods |-> PackMc]
  /\ mem = EmptyMem
  /\ disk = EmptyDisk
  /\ csrc = "modrinth"
  /\ last = NoCall
  /\ sel = NoSel
  /\ rs = NoRs
  /\ fc = NoFc
  /\ rq = NoRq
  /\ \E m \in TestMatchers, v \in TestVers, fallback \in BOOLEAN :
       pf = [pc |-> "test", m |-> m, v |-> v, fallback |-> fallback]

\* m.test(v, fallback=fallback); m.test_no_fallback(v)
PTest ==
  /\ pf.pc = "test"
  /\ pf' = [pf EXCEPT !.pc = "tested"]
             @@ [result |-> ModVerMatch_test(pf.m, pf.v, pf.fallback),
                 no_fallback |-> ModVerMatch_test_no_fallback(pf.m, pf.v)]
  /\ UNCHANGED <<now, gen, requires, targets, mem, disk, csrc, last, sel, rs, fc, rq>>

TestNext == PTest

SpecTest == TestInit /\ [][TestNext]_vars

\* range, loader or substring filter reject v
Rejected(m, v) ==
  \/ ~VerMatch_call(m.ver, v.version)
  \/ m.loader # None /\ v.loaders # {} /\ m.loader[1] \notin v.loaders
  \/ m.ver_str_match # None /\ ~Contains(lower(v.version_string), lower(m.ver_str_match[1]))

\* the result the predicate is documented to give
Test_documented(m, v, fallback) ==
  IF Rejected(m, v) THEN RESULT_FAIL
  ELSE IF \E g \in v.mcversions : McVerMatch_call(m.mcver, g) THEN RESULT_SUCCESS
  ELSE IF fallback /\ m.mcver_fallback # None
          /\ \E g \in v.mcversions : McVerMatch_call(m.mcver_fallback[1], g)
       THEN RESULT_FALLBACK
  ELSE RESULT_FAIL

\* C17: test returns FAIL on a range, loader or substring rejection, else
\* SUCCESS if a declared game version satisfies the primary match, else
\* FALLBACK if one satisfies the fallback match, whatever kind of matcher
\* the fallback is, else FAIL; without fallback it never returns FALLBACK.
C17_TestResult ==
  pf.pc = "tested" =>
    /\ pf.result = Test_documented(pf.m, pf.v, pf.fallback)
    /\ pf.no_fallback = Test_documented(pf.m, pf.v, FALSE)
    /\ pf.no_fallback # RESULT_FALLBACK

(***************************************************************************)
(* The order of a ModInfo's version list, checked under SpecCache: every   *)
(* ModInfo the in-memory cache holds was built by a first fetch or a       *)
(* revalidation, or decoded from its document.                             *)
(***************************************************************************)
\* w is higher than v: a greater Ver, or an equal Ver published later
Outranks(w, v) ==
  \/ v.version # w.version /\ Ver_lt(v.version, w.version)
  \/ v.version = w.version /\ v.published < w.published

SortedDescending(versions) ==
  \A i \in 1..(Len(versions) - 1) : ~Outranks(versions[i + 1], versions[i])

\* C20: the version list of every constructed ModInfo is sorted descending
\* by Ver, ties broken by publish time: no version is followed by a higher
\* one.
C20_VersionsSortedDescending ==
  \A k \in Keys : IsInfo(mem[k]) => SortedDescending(mem[k][2].versions)

(***************************************************************************)
(* Claims about the explicit flag, the fallback and the predicates of      *)
(* resolve, checked under SpecResolve.                                     *)
(***************************************************************************)
ListedNames(st) == {st.manifest[i].name : i \in 1..Len(st.manifest)}

\* r is explicit exactly when its mod is among the names, and a mod that is
\* not explicit has a dependent
ExplicitIffAmong(r, names) ==
  /\ (r.conf # None) <=> (NameOf(r) \in names)
  /\ r.conf = None => r.dependents # <<>>

\* the scenario: the manifest is the remote mod A alone, whose chosen
\* version requires B alone, which requires nothing
ScenarioAB(st, A, B) ==
  /\ Len(st.manifest) = 1 /\ st.manifest[1].name = A /\ st.manifest[1].source # "local"
  /\ A # B
  /\ \E r \in Range(Downloaded(st)) : NameOf(r) = A /\ RequiredBy(r) = {B}
  /\ \E r \in Range(Downloaded(st)) : NameOf(r) = B /\ RequiredBy(r) = {}

ScenarioABResult(st, A, B) ==
  {[name |-> NameOf(r), explicit |-> r.conf # None, dependents |-> r.dependents] :
     r \in Range(Downloaded(st))}
    = {[name |-> A, explicit |-> TRUE, dependents |-> <<>>],
       [name |-> B, explicit |-> FALSE, dependents |-> <<A>>]}

\* C21: when resolve returns, a ResolvedMod is explicit exactly when the
\* manifest lists its mod, whether or not other mods require it; a mod
\* that is not explicit has at least one dependent; and a manifest of A
\* alone, whose chosen version requires B, yields A explicit without
\* dependents and B not explicit with the dependents {A}.
C21_ExplicitIffListed ==
  rs.pc = "done" =>
    /\ \A r \in Range(Downloaded(rs)) : ExplicitIffAmong(r, ListedNames(rs))
    /\ \A A, B \in Mods : ScenarioAB(rs, A, B) => ScenarioABResult(rs, A, B)

\* The same with the manifest's remote entries for the listed mods.
C21_ExplicitIffRemoteEntry ==
  rs.pc = "done" =>
    /\ \A r \in Range(Downloaded(rs)) : ExplicitIffAmong(r, RemoteEntries(rs))
    /\ \A A, B \in Mods : ScenarioAB(rs, A, B) => ScenarioABResult(rs, A, B)

(***************************************************************************)
(* The fallback specification: one resolve call on a manifest of one       *)
(* entry, against registries in which every project publishes either for   *)
(* the pack's game version or for the patch before it.                     *)
(***************************************************************************)
FallbackInit ==
  /\ now = 0
  /\ gen = [n \in Mods |-> 2]
  /\ requires \in Registries
  /\ targets \in [Mods -> {PackMc, OldMc}]
  /\ mem = EmptyMem
  /\ disk = EmptyDisk
  /\ csrc = "modrinth"
  /\ last = NoCall
  /\ sel = NoSel
  /\ \E m \in Manifests : Len(m) = 1 /\ rs = OfCall(ResolveStart(m))
  /\ fc = NoFc
  /\ rq = NoRq
  /\ pf = NoPf

SpecFallback == FallbackInit /\ [][ResolveNext]_vars

\* the predicate r was resolved with (lines 84-85 and 95)
MvmOf(r) ==
  ModVerMatch(IF r.conf = None THEN VerMatch_ANY ELSE r.conf[1].version, Some(Loader),
              default_mcver_match, Some(default_mcver_fallback_match))

IsLatestPublished(r) == \A v \in Range(ListedVersions(NameOf(r))) : v.published <= r.ver.published

\* the manifest holds an entry no published version satisfies
Unsatisfiable(st) ==
  \E i \in 1..Len(st.manifest) :
    \A v \in Range(ListedVersions(st.manifest[i].name)) :
      ~VerMatch_call(st.manifest[i].version, v.version)

\* C22: when every published version of a mod targets the patch before
\* the pack's game version and the default compatible fallback is in
\* effect, resolve does not fail for want of a version, the version it
\* selects for the mod is accepted as FALLBACK, and no warning is recorded
\* for the mod when the selected version is the latest published one.
C22_FallbackWithoutWarning ==
  /\ rs.pc = "crash" => Unsatisfiable(rs)
  /\ \A r \in Range(Downloaded(rs)) :
       targets[NameOf(r)] = OldMc =>
         /\ r.ver \in Range(ListedVersions(NameOf(r)))
         /\ ModVerMatch_test(MvmOf(r), r.ver, TRUE) = RESULT_FALLBACK
         /\ ModVerMatch_test(MvmOf(r), r.ver, FALSE) = RESULT_FAIL
         /\ IsLatestPublished(r) =>
              \A i \in 1..Len(rs.warnings) :
                rs.warnings[i] \notin {NameOf(r), IdOf[NameOf(r)]}

\* resolve has returned with a mod selected through the fallback, both as
\* a manifest entry and as a dependency
C22_Witness ==
  /\ rs.pc = "done"
  /\ \E r \in Range(Downloaded(rs)) : targets[NameOf(r)] = OldMc /\ r.conf # None
  /\ \E r \in Range(Downloaded(rs)) : targets[NameOf(r)] = OldMc /\ r.conf = None

(***************************************************************************)
(* A cached document that cannot be read, checked under SpecCache.         *)
(***************************************************************************)
\* the lookup of get_modinfo raised: the document is malformed, or the
\* exception of an earlier read of it is still in the memory cache
FoundUnreadable == AfterGetModinfo /\ last.found = ExcE[1]

\* a new process would be served from the document as well
ServedFromDocument(s, x) ==
  \A d \in 0..(RECHECK_INTERVAL_MIN - 1), interval \in RecheckIntervals, fail \in Failures :
    NoBackendCall(get_modinfo(EmptyMem, disk, s, x, now + d, interval, fail))

\* C23: a cached document that cannot be read as a ModInfo is a cache miss
\* for get_modinfo: the call goes on to the backend and fails only if a
\* backend request fails; it fetches descriptor and version list,
\* overwrites the document, and a further lookup of the mod less than the
\* minimum recheck interval later is served from the cache without a
\* backend call.
C23_MalformedIsMiss ==
  FoundUnreadable =>
    /\ CallDesc \in last.calls
    /\ last.outcome = "ok" =>
         /\ last.calls = {CallDesc, CallVersions}
         /\ last.stored /\ last.wrote
         /\ last.result[1].checked = now
         /\ FileAt(disk, "by_name", csrc, last.ident) = DocFile(serialize_ModInfo(last.result[1]))
         /\ ServedFromCache(csrc, last.ident)
         /\ ServedFromDocument(csrc, last.ident)

C23_Witness ==
  /\ FoundUnreadable /\ last.outcome = "ok"
  /\ FileAt(disk, "by_name", csrc, last.ident) # Malformed

(***************************************************************************)
(* resolve.py: ResolvedMod.__and__, applied to two resolutions of project  *)
(* "a". A ModInfo is an object: obj tells two ModInfo objects of the same  *)
(* project apart.                                                          *)
(***************************************************************************)
MaxDependents == 2

\* nothing but pf is in use
Idle ==
  /\ now = 0
  /\ gen = [n \in Mods |-> 1]
  /\ requires = [n \in Mods |-> {}]
  /\ targets = [n \in Mods |-> PackMc]
  /\ mem = EmptyMem
  /\ disk = EmptyDisk
  /\ csrc = "modrinth"
  /\ last = NoCall
  /\ sel = NoSel
  /\ rs = NoRs
  /\ fc = NoFc
  /\ rq = NoRq

ValueError == [exception |-> "ValueError"]

\* ResolvedMod.__and__
ResolvedMod_and(self, other) ==
  IF self.mod # other.mod THEN ValueError
  ELSE ResolvedMod(self.mod,
                   IF Ver_ge(self.ver.ver.version, other.ver.ver.version)
                   THEN self.ver ELSE other.ver,
                   self.source,
                   IF self.conf # None THEN self.conf ELSE other.conf,
                   self.dependents \o other.dependents)

\* The versions a resolution of "a" may have chosen: 1.0, 1.1-BETA, 1.1,
\* and a second 1.0 published later.
MergeVers ==
  {[ver |-> PubVer("a", k), info |-> DetailOf("modrinth", "a", k, 3)] : k \in 1..3}
    \cup {[ver |-> ModVer(4, VerOfPub(1), 4, {PackMc}, {}),
           info |-> DetailOf("modrinth", "a", 4, 4)]}

MergeConfs ==
  {None, Some(ModConf("a", "modrinth", VerMatch_ANY)),
   Some(ModConf("a", "modrinth", VerMatch(<<>>, RELEASE)))}

DependentLists ==
  {d \in UNION {[1..n -> Mods \ {"a"}] : n \in 0..MaxDependents} :
     \A i, j \in 1..Len(d) : i # j => d[i] # d[j]}

Resolutions ==
  {ResolvedMod([obj |-> o, id |-> IdOf["a"]], v, "modrinth", c, d) :
     o \in 1..2, v \in MergeVers, c \in MergeConfs, d \in DependentLists}

MergeInit ==
  /\ Idle
  /\ \E a \in Resolutions, b \in Resolutions : pf = [pc |-> "merge", a |-> a, b |-> b]

\* a & b, b & a, a & a
PMerge ==
  /\ pf.pc = "merge"
  /\ pf' = [pf EXCEPT !.pc = "merged"]
             @@ [ab |-> ResolvedMod_and(pf.a, pf.b), ba |-> ResolvedMod_and(pf.b, pf.a),
                 aa |-> ResolvedMod_and(pf.a, pf.a)]
  /\ UNCHANGED <<now, gen, requires, targets, mem, disk, csrc, last, sel, rs, fc, rq>>

MergeNext == PMerge

SpecMerge == MergeInit /\ [][MergeNext]_vars

\* what two merges are compared on, the dependents as a set
Compared(r) ==
  IF r = ValueError THEN r
  ELSE [ver |-> r.ver, conf |-> r.conf, dependents |-> Range(r.dependents)]

\* the merge of a and b as stated: the higher version, an entry if either
\* has one, the union of the dependents
Merges(ab, a, b) ==
  /\ ab # ValueError
  /\ ab.ver \in {a.ver, b.ver}
  /\ \A x \in {a, b} :
       x.ver.ver.version = ab.ver.ver.version \/ Ver_lt(x.ver.ver.version, ab.ver.ver.version)
  /\ ab.conf \in {a.conf, b.conf}
  /\ (a.conf # None \/ b.conf # None) => ab.conf # None
  /\ Range(ab.dependents) = Range(a.dependents) \cup Range(b.dependents)

\* C24: for two resolutions a and b of the same mod, a & b keeps the
\* higher chosen version, a non-null manifest entry if either has one and
\* the union of the dependents, a & b equals b & a, and a & a equals a,
\* compared on chosen version, manifest entry and dependents.
C24_MergeCommutativeIdempotent ==
  pf.pc = "merged" =>
    /\ Merges(pf.ab, pf.a, pf.b)
    /\ Compared(pf.ab) = Compared(pf.ba)
    /\ Compared(pf.aa) = Compared(pf.a)

\* the same for two resolutions that hold the same ModInfo object, have
\* chosen versions with different tokens and do not both have an entry
MergeOrdinary(a, b) ==
  /\ a.mod = b.mod
  /\ a.ver.ver.version.version # b.ver.ver.version.version
  /\ a.conf = None \/ b.conf = None
C24_MergeOfOrdinaryPairs ==
  (pf.pc = "merged" /\ MergeOrdinary(pf.a, pf.b)) =>
    /\ Merges(pf.ab, pf.a, pf.b)
    /\ Compared(pf.ab) = Compared(pf.ba)
    /\ Compared(pf.aa) = Compared(pf.a)

\* a & a keeps the list of dependents as it is
C24_IdempotentOnLists == pf.pc = "merged" => pf.aa.dependents = pf.a.dependents

(***************************************************************************)
(* common.py: Ver.serialize, Ver.deserialize. A string is the sequence of  *)
(* its pieces: Dot, or the text of a token; an empty text adds no piece.   *)
(***************************************************************************)
Dot == [dot |-> TRUE]
\* str(token)
TokStr(t) == IF ~t.int /\ SortedStrs[t.v] = "" THEN <<>> ELSE <<[dot |-> FALSE, tok |-> t]>>

\* '.'.join(map(str, self.version))
RECURSIVE JoinDots(_)
JoinDots(toks) ==
  IF toks = <<>> THEN <<>>
  ELSE IF Len(toks) = 1 THEN TokStr(toks[1])
  ELSE TokStr(toks[1]) \o <<Dot>> \o JoinDots(Tail(toks))

\* ver.split('.'): the texts between the dots, the text `cur` being open
RECURSIVE SplitDots(_, _)
SplitDots(text, cur) ==
  IF text = <<>> THEN <<cur>>
  ELSE IF text[1] = Dot THEN <<cur>> \o SplitDots(Tail(text), <<>>)
  ELSE SplitDots(Tail(text), Append(cur, text[1]))

\* maybeint: int(s) if s.isnumeric() else s, for the text of one token
maybeint(s) == IF s = <<>> THEN S("") ELSE s[1].tok

VerTypeName(type) == CASE type = RELEASE -> "RELEASE" [] type = BETA -> "BETA" [] type = ALPHA -> "ALPHA"
\* VerType.deserialize of the text after the first '-'
VerType_deserialize(name) ==
  CASE name = "RELEASE" -> RELEASE [] name = "BETA" -> BETA [] name = "ALPHA" -> ALPHA

\* Ver.serialize: f'{version}-TYPE'; no token holds a '-'
Ver_serialize(v) == [version |-> JoinDots(v.version), type |-> VerTypeName(v.type)]

\* Ver.deserialize: ver.partition('-'), tuple(map(maybeint, ver.split('.')))
Ver_deserialize(x) ==
  MkVer(AsSeq([i \in 1..Len(SplitDots(x.version, <<>>)) |-> maybeint(SplitDots(x.version, <<>>)[i])]),
        VerType_deserialize(x.type))

(***************************************************************************)
(* The codec specification: a value of one of the core types is encoded    *)
(* and decoded again.                                                      *)
(***************************************************************************)
\* Vers of up to MaxTokens tokens, the empty tuple included
CodecVers ==
  {MkVer(toks, type) : toks \in UNION {[1..n -> Tokens] : n \in 0..MaxTokens},
                       type \in {RELEASE, BETA, ALPHA}}

\* releases, pre-releases and snapshots
CodecMcVers ==
  McVers \cup {[McV(1, 19, p) EXCEPT !.suffix = s] : p \in 0..MaxPatch, s \in {"pre1", "rc1"}}
         \cup {[SNAPSHOTS[i] EXCEPT !.snapshot = l] : i \in 1..Len(SNAPSHOTS),
                                                        l \in {"22w24a", "22w30a", "22w42a", "22w50a"}}

\* ModInfos as the manager builds them: of a project with up to three
\* versions, with or without an `updated` date, with the details of some
\* of the versions
CodecInfos ==
  {ModInfo(checked, ModDesc("A", "a", updated), versions,
           AsFcn([k \in known |-> DetailOf("modrinth", "a", k, 3)])) :
     checked \in 0..1, updated \in {None, Some(3)},
     versions \in {<<>>} \cup DistinctSeqs({PubVer("a", k) : k \in 1..3}
                                            \cup {ModVer(4, VerOfPub(3), 4, {}, {"forge"})}, 1, 2),
     known \in SUBSET (1..2)}

CodecInit ==
  /\ Idle
  /\ \/ \E v \in CodecVers : pf = [pc |-> "encode", type |-> "Ver", v |-> v]
     \/ \E v \in CodecMcVers : pf = [pc |-> "encode", type |-> "McVer", v |-> v]
     \/ \E v \in CodecInfos : pf = [pc |-> "encode", type |-> "ModInfo", v |-> v]

\* serialize(v)
serialize(type, v) ==
  CASE type = "Ver" -> Ver_serialize(v)
    [] type = "McVer" -> McVer_serialize(v)
    [] type = "ModInfo" -> serialize_ModInfo(v)

\* deserialize(T, doc)
deserialize(type, doc) ==
  CASE type = "Ver" -> Ver_deserialize(doc)
    [] type = "McVer" -> McVer_deserialize(doc)
    [] type = "ModInfo" -> deserialize_ModInfo(doc)

PEncode ==
  /\ pf.pc = "encode"
  /\ pf' = [pf EXCEPT !.pc = "decode"] @@ [doc |-> serialize(pf.type, pf.v)]
  /\ UNCHANGED <<now, gen, requires, targets, mem, disk, csrc, last, sel, rs, fc, rq>>

PDecode ==
  /\ pf.pc = "decode"
  /\ pf' = [pf EXCEPT !.pc = "decoded"] @@ [back |-> deserialize(pf.type, pf.doc)]
  /\ UNCHANGED <<now, gen, requires, targets, mem, disk, csrc, last, sel, rs, fc, rq>>

CodecNext == PEncode \/ PDecode

SpecCodec == CodecInit /\ [][CodecNext]_vars

\* C25: for every ModInfo, every Ver and every McVer,
\* deserialize(T, serialize(v)) equals v, values with absent optional
\* fields, empty collections and an empty token tuple included.
C25_CodecRoundTrip == pf.pc = "decoded" => pf.back = pf.v

\* the same for a Ver with at least one token
C25_VerRoundTrip ==
  (pf.pc = "decoded" /\ pf.type = "Ver" /\ pf.v.version # <<>>) => pf.back = pf.v

\* for a release or pre-release McVer
C25_McVerRoundTrip ==
  (pf.pc = "decoded" /\ pf.type = "McVer" /\ pf.v.snapshot = "") => pf.back = pf.v

\* for a ModInfo without two versions of equal tokens
EqualTokens(versions) ==
  \E i, j \in 1..Len(versions) :
    i # j /\ versions[i].version.version = versions[j].version.version
C25_ModInfoRoundTrip ==
  (pf.pc = "decoded" /\ pf.type = "ModInfo" /\ ~EqualTokens(pf.v.versions)) => pf.back = pf.v

\* what fails: the empty token tuple, a snapshot, two versions of equal tokens
C25_VerEmptyRoundTrip ==
  (pf.pc = "decoded" /\ pf.type = "Ver" /\ pf.v.version = <<>>) => pf.back = pf.v
C25_SnapshotRoundTrip ==
  (pf.pc = "decoded" /\ pf.type = "McVer" /\ pf.v.snapshot # "") => pf.back = pf.v
C25_ModInfoEqualTokensRoundTrip ==
  (pf.pc = "decoded" /\ pf.type = "ModInfo" /\ EqualTokens(pf.v.versions)) => pf.back = pf.v

(***************************************************************************)
(* The predicate a mod is resolved with, checked under SpecResolve.        *)
(***************************************************************************)
\* the manifest's entry for the mod
EntryOf(st, n) == st.manifest[CHOOSE i \in 1..Len(st.manifest) : st.manifest[i].name = n]

\* the version the predicate mvm selects from r's cached ModInfo
SelectedBy(r, mvm) == get_latest_version(mem[<<"by_name", r.source, NameOf(r)>>][2], mvm)

\* r was resolved with its manifest entry if it is among the names, with
\* the relaxed predicate otherwise
ResolvedWithOwn(st, r, names) ==
  IF NameOf(r) \in names
  THEN /\ r.conf = Some(EntryOf(st, NameOf(r)))
       /\ r.source = EntryOf(st, NameOf(r)).source
       /\ Some(r.ver) = SelectedBy(r, ModVerMatch(EntryOf(st, NameOf(r)).version, Some(Loader),
                                                  default_mcver_match,
                                                  Some(default_mcver_fallback_match)))
  ELSE /\ r.conf = None
       /\ Some(r.ver) = SelectedBy(r, ModVerMatch(VerMatch_ANY, Some(Loader), default_mcver_match,
                                                  Some(default_mcver_fallback_match)))

\* C26: a mod reached only as a dependency is resolved with the relaxed
\* predicate, whatever its requesters' constraints and the version id the
\* dependency names; a mod the manifest lists is resolved with the
\* constraints of its own entry and never with the relaxed predicate, also
\* when another mod requires it.
C26_ListedResolvedWithOwnEntry ==
  \A r \in Range(Downloaded(rs)) : ResolvedWithOwn(rs, r, ListedNames(rs))

\* The same with the manifest's remote entries for the listed mods.
C26_RemoteResolvedWithOwnEntry ==
  \A r \in Range(Downloaded(rs)) : ResolvedWithOwn(rs, r, RemoteEntries(rs))

\* a manifest mod that another mod requires kept the version of its own
\* entry, which the relaxed predicate would not have selected
C26_RemoteWitness ==
  /\ rs.pc = "done"
  /\ \E r \in Range(Downloaded(rs)) :
       /\ r.conf # None /\ r.dependents # <<>>
       /\ Some(r.ver) # SelectedBy(r, ModVerMatch(VerMatch_ANY, Some(Loader), default_mcver_match,
                                                  Some(default_mcver_fallback_match)))

(***************************************************************************)
(* The comparison specification: a VerMatch of up to MaxCriteria           *)
(* comparisons is applied to a candidate Ver.                              *)
(***************************************************************************)
MaxCriteria == 2

\* the bounds 1.2 and 2.0
CmpBounds == {MkVer(<<I(1), I(2)>>, RELEASE), MkVer(<<I(2)>>, RELEASE)}
VerCmps ==
  {VerCmp(None, "")} \cup {VerCmp(Some(b), op) : b \in CmpBounds, op \in {"", "<", "<=", ">", ">="}}
VerMatchers ==
  {VerMatch(criteria, floor) :
     criteria \in UNION {[1..n -> VerCmps] : n \in 0..MaxCriteria},
     floor \in {ALPHA, BETA, RELEASE}}

VerMatchInit ==
  /\ Idle
  /\ \E m \in VerMatchers, c \in Vers : pf = [pc |-> "vermatch", m |-> m, other |-> c]

\* m(other), and c(other) for each comparison c of m
PVerMatch ==
  /\ pf.pc = "vermatch"
  /\ pf' = [pf EXCEPT !.pc = "vermatched"]
             @@ [accepted |-> VerMatch_call(pf.m, pf.other),
                 each |-> AsSeq([i \in 1..Len(pf.m.criteria) |->
                                   VerCmp_call(pf.m.criteria[i], pf.other)])]
  /\ UNCHANGED <<now, gen, requires, targets, mem, disk, csrc, last, sel, rs, fc, rq>>

VerMatchNext == PVerMatch

SpecVerMatch == VerMatchInit /\ [][VerMatchNext]_vars

\* "c op bound", with the candidate as the left operand
CandidateOpBound(cmp, c) ==
  IF cmp.ver = None THEN TRUE
  ELSE CASE cmp.operator = ""   -> c = cmp.ver[1]
         [] cmp.operator = "<"  -> Ver_lt(c, cmp.ver[1])
         [] cmp.operator = "<=" -> Ver_le(c, cmp.ver[1])
         [] cmp.operator = ">"  -> Ver_gt(c, cmp.ver[1])
         [] cmp.operator = ">=" -> Ver_ge(c, cmp.ver[1])

\* C27: a comparison VerCmp(op, bound) accepts a candidate c exactly when
\* "c op bound" holds, the empty operator accepts only the equal Ver, a
\* comparison without a bound accepts everything, and a VerMatch accepts c
\* exactly when each of its comparisons accepts c and the maturity of c is
\* not below the floor.
C27_CandidateOpBound ==
  pf.pc = "vermatched" =>
    /\ \A i \in 1..Len(pf.m.criteria) : pf.each[i] = CandidateOpBound(pf.m.criteria[i], pf.other)
    /\ pf.accepted = (/\ pf.other.type >= pf.m.min_ver_type
                      /\ \A i \in 1..Len(pf.m.criteria) : pf.each[i])

\* what holds: the conjunction and the floor, the empty operator and the
\* comparison without a bound
Unordered(cmp) == cmp.ver = None \/ cmp.operator = ""
C27_ConjunctionAndFloor ==
  pf.pc = "vermatched" =>
    /\ \A i \in 1..Len(pf.m.criteria) :
         Unordered(pf.m.criteria[i]) =>
           pf.each[i] = CandidateOpBound(pf.m.criteria[i], pf.other)
    /\ pf.accepted = (/\ pf.other.type >= pf.m.min_ver_type
                      /\ \A i \in 1..Len(pf.m.criteria) : pf.each[i])

\* ">=1.2" accepts the higher 2.1
C27_AtLeastAcceptsHigher ==
  (/\ pf.pc = "vermatched"
   /\ pf.m = VerMatch(<<VerCmp(Some(MkVer(<<I(1), I(2)>>, RELEASE)), ">=")>>, ALPHA)
   /\ pf.other = MkVer(<<I(2), I(1)>>, RELEASE)) => pf.accepted

(***************************************************************************)
(* The termination specification: one resolve call on a manifest of one    *)
(* entry, against every registry, those in which a project requires        *)
(* itself or projects require each other included. resolve is a coroutine  *)
(* of the asyncio event loop: each of its steps is one resumption by the   *)
(* loop, which pf counts modulo 2. Every backend request returns or        *)
(* raises, and the loop resumes a coroutine that is ready.                 *)
(***************************************************************************)
Loop(resumptions) == [pc |-> "loop", resumptions |-> resumptions]

TerminationInit ==
  /\ now = 0
  /\ gen = [n \in Mods |-> 2]
  /\ requires \in [Mods -> SUBSET Mods]
  /\ targets = [n \in Mods |-> PackMc]
  /\ mem = EmptyMem
  /\ disk = EmptyDisk
  /\ csrc = "modrinth"
  /\ last = NoCall
  /\ sel = NoSel
  /\ \E m \in Manifests : Len(m) = 1 /\ rs = OfCall(ResolveStart(m))
  /\ fc = NoFc
  /\ rq = NoRq
  /\ pf = Loop(0)

\* the loop resumes resolve
Resumed ==
  /\ rs.pc \in {"manifest", "drain"}
  /\ pf' = Loop((pf.resumptions + 1) % 2)

\* for mod in modpak.build_type_mods(build_type): ...
TManifest ==
  /\ rs.pc = "manifest"
  /\ Resumed
  /\ \E fail \in {"none", CallDesc} : Stepped(ManifestStep(CallState(rs, mem, disk), now, fail))
  /\ UNCHANGED <<now, gen, requires, targets, csrc, last, sel, fc, rq>>

\* while deps: ...
TDrain ==
  /\ rs.pc = "drain"
  /\ Resumed
  /\ \E fail \in {"none", CallDesc} : Stepped(DrainStep(CallState(rs, mem, disk), now, fail))
  /\ UNCHANGED <<now, gen, requires, targets, csrc, last, sel, fc, rq>>

TerminationNext == TManifest \/ TDrain

\* Every step of resolve is a resumption and resolve is ready whenever it
\* has not returned or raised, so fairness of the resumptions is fairness
\* of TerminationNext.
SpecTermination == TerminationInit /\ [][TerminationNext]_vars /\ WF_pf(Resumed)

\* resolve has returned or raised
Terminated == rs.pc \in {"done", "raised", "crash"}

\* A step of resolve looks for at most one mod, one that is not resolved
\* yet, and leaves the resolved ones as they are but for their dependents.
FetchesOnlyNew ==
  rs'.pc \in {"manifest", "drain", "done"} =>
    /\ Len(rs'.resolved) \in {Len(rs.resolved), Len(rs.resolved) + 1}
    /\ \A i \in 1..Len(rs.resolved) :
         /\ rs'.resolved[i].key = rs.resolved[i].key
         /\ [rs'.resolved[i].r EXCEPT !.dependents = <<>>]
              = [rs.resolved[i].r EXCEPT !.dependents = <<>>]
    /\ Len(rs'.resolved) > Len(rs.resolved) =>
         ~HasKey(rs.resolved, rs'.resolved[Len(rs'.resolved)].key)

\* C28: resolve terminates on every manifest and registry, dependency
\* cycles and a mod that requires itself included, and looks for every
\* dependency id at most once.
C28_ResolveTerminates == <>Terminated /\ [][FetchesOnlyNew]_vars

\* resolve has returned with a mod that requires itself and two mods that
\* require each other
C28_Witness ==
  /\ rs.pc = "done"
  /\ \E r \in Range(Downloaded(rs)) : NameOf(r) \in RequiredBy(r)
  /\ \E r, q \in Range(Downloaded(rs)) :
       NameOf(r) # NameOf(q) /\ NameOf(q) \in RequiredBy(r) /\ NameOf(r) \in RequiredBy(q)


(***************************************************************************)
(* The shared files directory: one client holds the ModInfo of the         *)
(* projects "a" and "b", whose versions carry the same file names, and     *)
(* asks for the files of their versions, one call after the other.  The    *)
(* directory records, per file name, the version whose file the backend    *)
(* wrote there.                                                            *)
(***************************************************************************)
FetchedBoth(s) ==
  get_modinfo(FetchedAtStart(s).mem, FetchedAtStart(s).disk, s, "b", 0,
              RECHECK_INTERVAL_MIN, "none")

Sharers == {"a", "b"}

Directory(content) == [pc |-> "files", content |-> content]

SharedInit ==
  /\ now = 0
  /\ \E g \in [Sharers -> 1..MaxGen] : gen = [n \in Mods |-> IF n \in Sharers THEN g[n] ELSE 1]
  /\ requires = [n \in Mods |-> {}]
  /\ targets = [n \in Mods |-> PackMc]
  /\ csrc \in Sources
  /\ mem = FetchedBoth(csrc).mem
  /\ disk = FetchedBoth(csrc).disk
  /\ last = NoCall
  /\ sel = NoSel
  /\ rs = NoRs
  /\ fc = [pc |-> "on", file_cache |-> EmptyFileCache, files |-> {},
           downloads |-> [f \in FileNames |-> 0], absent |-> {}]
  /\ rq = NoRq
  /\ pf = Directory([f \in FileNames |-> None])

\* Backend.get_file(p, ver) writes the file of ver at p when the call of
\* get_file that returned r asked the backend for it.
BackendWrote(r, n, ver) ==
  IF r.outcome = "ok" /\ CallFile \in r.calls
  THEN Directory([pf.content EXCEPT ![r.result[1][2]] = Some(<<csrc, n, ver.id>>)])
  ELSE pf

\* The call of get_file for ver of project n returned r.
SharedReturned(r, n, ver) ==
  /\ mem' = r.mem
  /\ disk' = r.disk
  /\ fc' = r.fc
  /\ pf' = BackendWrote(r, n, ver)
  /\ last' = [op |-> "get_file", mod |-> n, ver |-> ver.id, outcome |-> r.outcome,
              result |-> r.result, calls |-> r.calls]

\* await manager.get_file(csrc, info, ver), info being a held ModInfo
SGetFile ==
  /\ last = NoCall
  /\ \E n \in Sharers, fail \in {"none", CallDetail, CallFile} :
       /\ IsInfo(mem[<<"by_name", csrc, n>>])
       /\ \E i \in 1..Len(mem[<<"by_name", csrc, n>>][2].versions) :
            SharedReturned(get_file(mem, disk, fc, csrc, mem[<<"by_name", csrc, n>>][2],
                                    mem[<<"by_name", csrc, n>>][2].versions[i], fail),
                           n, mem[<<"by_name", csrc, n>>][2].versions[i])
  /\ UNCHANGED <<now, gen, requires, targets, csrc, sel, rs, rq>>

SharedNext ==
  \/ SGetFile
  \/ FReturn

SpecShared == SharedInit /\ [][SharedNext]_vars

\* The file at the path a successful call returned
FileHeldAt(path) == pf.content[path[1][2]]

\* C29: the path get_file returns holds the file that was downloaded for
\* the requested version: a file present in the shared files directory is
\* reused only for the source, mod and version it was downloaded for, never
\* for another mod or version whose detail carries the same file name.
C29_PathHoldsFileOfVersion ==
  (AfterGetFile /\ last.outcome = "ok") =>
    FileHeldAt(last.result) = Some(<<csrc, last.mod, last.ver>>)

\* What holds: the returned path is the path of the file name the detail
\* of the requested version carries, and the file there was downloaded for
\* a version whose detail carries that name.
C29_PathHoldsFileOfSameName ==
  (AfterGetFile /\ last.outcome = "ok") =>
    /\ last.result = Some(file_path(FileNameOf(last.mod, last.ver)))
    /\ \E n \in Sharers, k \in 1..MaxGen :
         /\ FileHeldAt(last.result) = Some(<<csrc, n, k>>)
         /\ FileNameOf(n, k) = FileNameOf(last.mod, last.ver)

\* The reuse across mods: a call for a version of "b" is served, without a
\* backend request, the file that was downloaded for the version of "a" of
\* the same file name.
C29_ReusedForOtherMod ==
  /\ AfterGetFile
  /\ last.outcome = "ok"
  /\ last.mod = "b"
  /\ CallFile \notin last.calls
  /\ FileHeldAt(last.result) = Some(<<csrc, "a", last.ver>>)


(***************************************************************************)
(* DirBackedJsonCache: a dict in memory over a directory of JSON files,    *)
(* one file per key.  local_cache is a total function that gives SENTINEL  *)
(* for the keys the dict does not hold; the directory gives, per key, the  *)
(* JSON value of its file, NoJson when there is no file, BadJson when the  *)
(* file does not parse.                                                    *)
(***************************************************************************)
SENTINEL == "SENTINEL"
NoJson == "ENOENT"
BadJson == "{"

CacheKeys == {"k1", "k2"}
JsonValues == {"v1", "v2"}

DirBackedJsonCache(local_cache, changed_keys, files) ==
  [pc |-> "cache", local_cache |-> local_cache, changed_keys |-> changed_keys,
   files |-> files]

\* The keys the dict holds
InLocal(c) == {k \in CacheKeys : c.local_cache[k] # SENTINEL}

KeyError == "KeyError"
FileNotFoundError == "FileNotFoundError"

\* DirBackedJsonCache.get(key, default): [c, result]
DirBackedJsonCache_get(c, key, default) ==
  IF c.local_cache[key] # SENTINEL
  THEN [c |-> c, result |-> c.local_cache[key]]
  ELSE IF c.files[key] = NoJson THEN [c |-> c, result |-> default]
  ELSE IF c.files[key] = BadJson THEN [c |-> c, result |-> default]
  ELSE [c |-> [c EXCEPT !.local_cache[key] = c.files[key]], result |-> c.files[key]]

\* DirBackedJsonCache.put(key, value)
DirBackedJsonCache_put(c, key, value) ==
  [c EXCEPT !.local_cache[key] = value, !.changed_keys = @ \cup {key}]

\* DirBackedJsonCache.put_persist(key, value)
DirBackedJsonCache_put_persist(c, key, value) ==
  [c EXCEPT !.changed_keys = @ \ {key}, !.local_cache[key] = value, !.files[key] = value]

\* DirBackedJsonCache.persist(): [c, outcome].  The loop visits the
\* changed keys in the order of the set, which the caller does not choose:
\* when a changed key is not in the dict, the keys in written (changed and
\* in the dict) were visited before it and the lookup raises KeyError.
DirBackedJsonCache_persist(c, written) ==
  IF c.changed_keys \subseteq InLocal(c)
  THEN [c |-> [c EXCEPT !.files = [k \in CacheKeys |->
                                     IF k \in c.changed_keys THEN c.local_cache[k] ELSE @[k]],
                        !.changed_keys = {}],
        outcome |-> "ok"]
  ELSE [c |-> [c EXCEPT !.files = [k \in CacheKeys |->
                                     IF k \in written THEN c.local_cache[k] ELSE @[k]]],
        outcome |-> KeyError]

\* DirBackedJsonCache.delete(key): [c, outcome]
DirBackedJsonCache_delete(c, key) ==
  IF c.local_cache[key] = SENTINEL THEN [c |-> c, outcome |-> KeyError]
  ELSE IF c.files[key] = NoJson
  THEN [c |-> [c EXCEPT !.local_cache[key] = SENTINEL], outcome |-> FileNotFoundError]
  ELSE IF key \notin c.changed_keys
  THEN [c |-> [c EXCEPT !.local_cache[key] = SENTINEL, !.files[key] = NoJson],
        outcome |-> KeyError]
  ELSE [c |-> [c EXCEPT !.local_cache[key] = SENTINEL, !.files[key] = NoJson,
                        !.changed_keys = @ \ {key}],
        outcome |-> "ok"]

\* A new cache over a directory that holds any files.
JsonCacheInit ==
  /\ Idle
  /\ \E files \in [CacheKeys -> {NoJson, BadJson} \cup JsonValues] :
       pf = DirBackedJsonCache([k \in CacheKeys |-> SENTINEL], {}, files)

\* The call op(key) ended with outcome; before it the dict held held and
\* the changed keys were dirty.
Called(op, key, outcome) ==
  /\ last' = [op |-> op, key |-> key, outcome |-> outcome, held |-> InLocal(pf),
              dirty |-> pf.changed_keys]
  /\ UNCHANGED <<now, gen, requires, targets, mem, disk, csrc, sel, rs, fc, rq>>

JGet ==
  \E key \in CacheKeys :
    /\ pf' = DirBackedJsonCache_get(pf, key, SENTINEL).c
    /\ Called("get", key, "ok")

JPut ==
  \E key \in CacheKeys, value \in JsonValues :
    /\ pf' = DirBackedJsonCache_put(pf, key, value)
    /\ Called("put", key, "ok")

JPutPersist ==
  \E key \in CacheKeys, value \in JsonValues :
    /\ pf' = DirBackedJsonCache_put_persist(pf, key, value)
    /\ Called("put_persist", key, "ok")

JPersist ==
  \E written \in SUBSET (pf.changed_keys \cap InLocal(pf)) :
    /\ pf' = DirBackedJsonCache_persist(pf, written).c
    /\ Called("persist", "", DirBackedJsonCache_persist(pf, written).outcome)

JDelete ==
  \E key \in CacheKeys :
    /\ pf' = DirBackedJsonCache_delete(pf, key).c
    /\ Called("delete", key, DirBackedJsonCache_delete(pf, key).outcome)

JsonCacheNext ==
  \/ JGet
  \/ JPut
  \/ JPutPersist
  \/ JPersist
  \/ JDelete

SpecJsonCache == JsonCacheInit /\ [][JsonCacheNext]_vars

AfterCall(op) == last # NoCall /\ last.op = op

\* persist() returned: no key is left changed and the file of every key
\* that was changed holds the value the dict holds for it.
PersistedAll ==
  /\ pf.changed_keys = {}
  /\ \A k \in last.dirty : pf.files[k] = pf.local_cache[k] /\ pf.files[k] \in JsonValues

\* C30: after any sequence of get, put, put_persist, persist and delete
\* calls, including calls that raise, every key in changed_keys is present
\* in local_cache; hence persist() never fails on a missing key, and after
\* it returns changed_keys is empty and the file of every previously dirty
\* key holds its latest value; delete(key) of a key that is present, only
\* in memory or persisted and clean, keeps every changed key in the dict.
C30_ChangedKeysCached ==
  /\ pf.changed_keys \subseteq InLocal(pf)
  /\ AfterCall("persist") => (last.outcome = "ok" /\ PersistedAll)

\* What holds of persist: a call that returns leaves no key changed and
\* every previously dirty key's file with its latest value.
C30_PersistReturnedWritesAll ==
  (AfterCall("persist") /\ last.outcome = "ok") => PersistedAll

\* What holds of delete: it returns only for a key that was in the dict,
\* changed and on file; for a key in the dict that is clean and on file it
\* raises KeyError after removing the entry and the file, and no changed
\* key leaves the dict by it.
C30_DeleteOfCleanKeyRaises ==
  AfterCall("delete") =>
    /\ last.outcome = "ok" => (last.key \in last.held /\ last.key \in last.dirty)
    /\ (last.key \in last.held /\ last.key \notin last.dirty) =>
         /\ last.outcome \in {KeyError, FileNotFoundError}
         /\ pf.local_cache[last.key] = SENTINEL
         /\ pf.changed_keys \ InLocal(pf) = last.dirty \ last.held

\* The delete that breaks the containment: the key was put and never
\* written, so there is no file to unlink; the entry is gone from the dict
\* and the key is still changed.
C30_DeleteOfUnwrittenKey ==
  /\ AfterCall("delete")
  /\ last.outcome = FileNotFoundError
  /\ last.key \in pf.changed_keys
  /\ pf.local_cache[last.key] = SENTINEL

\* The persist that fails on a missing key
C30_PersistRaisesKeyError ==
  AfterCall("persist") /\ last.outcome = KeyError

====
